---------------------------- MODULE Spec2Model ----------------------------
(***************************************************************************)
(* Model of the planning agent (rag_system/agent/unified_agent.py), its    *)
(* parameter validator (rag_system/agent/entity_extractor.py) and the      *)
(* hybrid retriever (rag_system/retriever/rag_retriever.py).               *)
(*                                                                         *)
(* Python strings are sequences of one-character strings, so that strip,   *)
(* upper, startswith, isdigit, split and substring tests are computed.     *)
(* A CJK character is one token named by its code point, such as "u6708". *)
(* None is the sequence                                                    *)
(* <<"None">>, which no string equals, and the int n is <<"int">> followed *)
(* by its digits.                                                          *)
(* A dict is a sequence of <<key, value>> pairs with distinct keys, in     *)
(* insertion order; keys are TLA+ strings.                                 *)
(***************************************************************************)
EXTENDS Integers, Sequences, FiniteSets, TLC

VARIABLES
    \* ---- _validate_and_fix_plan applied to a drawn plan and intent ----
    plan_in,        \* the LLM-authored plan handed to the validator
    intent_in,      \* the intent handed to the validator
    plan_out,       \* the plan it returns
    vpc,            \* "input" before the call, "validated" / "raised" after
    \* ---- RAGRetriever.retrieve applied to a drawn query and index answer ----
    index_ready,    \* is_index_ready()
    use_hybrid,     \* self.use_hybrid
    query_in,       \* the query
    top_k_in,       \* top_k
    candidates,     \* result["sources"] of self.indexer.query(query, vector_top_k)
    retrieved,      \* the "sources" of the dict retrieve returns
    rpc,            \* "input" before the call, "returned" / "raised" after
    \* ---- run(): one entry per invocation ----
    scenario,       \* which functions are run: "single" is one run(), "long" one
                    \* run() with longer plans, "interleaved" two runs
    clock,            \* datetime.now(): [year, month]
    pc,             \* the stage of each run
    intents,         \* intent = self._understand_intent(question)
    plans,           \* the plan of the run; _fix_parameters writes into its steps
    ctx,            \* the context dict objects, by the slot that holds them
    idx,            \* position in plan["steps"][:max_steps] of the step in hand
    attempts,        \* the loop variable of _execute_step_with_retry
    execution_results,  \* execution_results of run()
    prompt,         \* the variable parts of the aggregation prompt
    answer,         \* final_answer
    sources,        \* sources of the returned dict
    \* ---- history, for stating the claims ----
    errors,         \* the errors of the attempts made so far at the step in hand
    last_step,      \* tool, errors and returned dict of the last finished step
    last_call,      \* the last tool.func(**arguments) call of each run, and
                    \* what the callable did in the run's last attempt
    ctx_writers,    \* per context object, the runs that wrote into it
    read_from,      \* per run, the writers of what its last context read saw
    \* ---- validate_and_fix_params applied to drawn arguments, and again ----
    fix_tool,       \* tool_name
    fix_params,     \* params
    fix_context,    \* context
    fixed_once,     \* what the first call returned
    fixed_twice,    \* what the call on fixed_once returned
    fpc,            \* "input", "fixed", "refixed" or "raised"
    \* ---- extract_all_entities applied to a drawn text ----
    text_in,        \* text
    user_context,   \* self.user_context: "current_user" when it has one
    entities_out,   \* the dict it returns: [employee, date_range]
    epc,            \* "input" before the call, "extracted" after
    \* ---- create_work_order_tool over the work_orders table ----
    work_orders,    \* the rows of the table, in insertion order
    wo_call,        \* the last call: its arguments and what it did
    \* ---- _resolve_dependencies over a drawn dependency map ----
    dep_map,        \* self.tool_dependencies
    requested,      \* tool_name
    frames,         \* the _resolve calls in progress, innermost last
    outer_i,        \* position of the outer loop in deps
    visited,        \* visited
    resolved,       \* resolved
    dpc,            \* "input", "resolving" or "returned"
    \* ---- _understand_intent / _generate_plan on a drawn LLM response ----
    stage_in,       \* "intent" or "plan": which of the two is called
    resp_in,        \* what self.llm.invoke does: [kind, text]
    stage_intent,   \* the intent _generate_plan is given
    stage_out,      \* what the call did: [raised, parsed, value, plan]
    ppc,            \* "input" before the call, "returned" / "raised" after
    \* ---- _adaptive_threshold and the relaxation of retrieve on drawn lists ----
    th_query,       \* query
    th_results,     \* reranked_results
    th_top_k,       \* top_k
    th_adapted,     \* what _adaptive_threshold returned
    th_used,        \* threshold of retrieve after line 226
    tpc,            \* "input", "adapted", then "relaxed" or "kept"
    \* ---- two create_work_order_tool calls at once ----
    wo_pc,          \* where each call is
    wo_existing,    \* existing, the row each call fetched at line 408
    wo_args,        \* the arguments of each call
    wo_first,       \* the table when the two calls were made
    \* ---- the lists inside the last retrieve ----
    rr_reranked,    \* reranked_results (line 216)
    rr_final        \* final_results (line 230)

valVars == <<plan_in, intent_in, plan_out, vpc>>

retVars == <<index_ready, use_hybrid, query_in, top_k_in, candidates, retrieved, rpc>>

runVars == <<pc, intents, plans, ctx, idx, attempts, execution_results, prompt,
             answer, sources, errors, last_step, last_call, ctx_writers, read_from>>

fixVars == <<fix_tool, fix_params, fix_context, fixed_once, fixed_twice, fpc>>

extVars == <<text_in, user_context, entities_out, epc>>

woVars == <<work_orders, wo_call>>

depVars == <<dep_map, requested, frames, outer_i, visited, resolved, dpc>>

unitVars == <<fixVars, extVars, woVars, depVars>>

parseVars == <<stage_in, resp_in, stage_intent, stage_out, ppc>>

thrVars == <<th_query, th_results, th_top_k, th_adapted, th_used, tpc>>

raceVars == <<wo_pc, wo_existing, wo_args, wo_first>>

rerankVars == <<rr_reranked, rr_final>>

moreVars == <<parseVars, thrVars, raceVars, rerankVars>>

vars == <<plan_in, intent_in, plan_out, vpc, index_ready, use_hybrid, query_in,
          top_k_in, candidates, retrieved, rpc, scenario, clock, pc, intents, plans, ctx,
          idx, attempts, execution_results, prompt, answer, sources, errors,
          last_step, last_call, ctx_writers, read_from,
          fix_tool, fix_params, fix_context, fixed_once, fixed_twice, fpc,
          text_in, user_context, entities_out, epc, work_orders, wo_call,
          dep_map, requested, frames, outer_i, visited, resolved, dpc,
          stage_in, resp_in, stage_intent, stage_out, ppc,
          th_query, th_results, th_top_k, th_adapted, th_used, tpc,
          wo_pc, wo_existing, wo_args, wo_first, rr_reranked, rr_final>>

----------------------------------------------------------------------------
(* Strings                                                                 *)

None == <<"None">>

LowerAlpha == <<"a","b","c","d","e","f","g","h","i","j","k","l","m",
                "n","o","p","q","r","s","t","u","v","w","x","y","z">>

UpperAlpha == <<"A","B","C","D","E","F","G","H","I","J","K","L","M",
                "N","O","P","Q","R","S","T","U","V","W","X","Y","Z">>

Digits == {"0","1","2","3","4","5","6","7","8","9"}

\* str.upper() on one character
UpperC(c) ==
    IF \E i \in 1..26 : LowerAlpha[i] = c
    THEN UpperAlpha[CHOOSE i \in 1..26 : LowerAlpha[i] = c]
    ELSE c

\* str.lower() on one character
LowerC(c) ==
    IF \E i \in 1..26 : UpperAlpha[i] = c
    THEN LowerAlpha[CHOOSE i \in 1..26 : UpperAlpha[i] = c]
    ELSE c

Upper(s) == [i \in 1..Len(s) |-> UpperC(s[i])]

Lower(s) == [i \in 1..Len(s) |-> LowerC(s[i])]

IsSpace(c) == c \in {" ", "\n", "\t"}

\* str.strip()
Strip(s) ==
    LET keep == {i \in 1..Len(s) : ~IsSpace(s[i])}
    IN  IF keep = {} THEN <<>>
        ELSE LET lo == CHOOSE i \in keep : \A j \in keep : i <= j
                 hi == CHOOSE i \in keep : \A j \in keep : j <= i
             IN  SubSeq(s, lo, hi)

\* s.startswith(p)
StartsWith(s, p) == Len(s) >= Len(p) /\ SubSeq(s, 1, Len(p)) = p

\* s.isdigit(): non-empty and all digits
IsDigit(s) == Len(s) > 0 /\ \A i \in 1..Len(s) : s[i] \in Digits

\* the positions at which p occurs in s
Occurrences(s, p) ==
    {i \in 1..(Len(s) - Len(p) + 1) : SubSeq(s, i, i + Len(p) - 1) = p}

\* p in s
Contains(s, p) == Len(p) = 0 \/ Occurrences(s, p) # {}

\* s[:n]
Take(s, n) == SubSeq(s, 1, IF Len(s) < n THEN Len(s) ELSE n)

\* isinstance(v, str)
IsStr(v) == v = <<>> \/ v[1] \notin {"None", "int"}

\* str(x): None prints as the four letters, an int as its digits
Str(v) ==
    IF v = None THEN <<"N","o","n","e">>
    ELSE IF IsStr(v) THEN v
    ELSE Tail(v)

\* Python truthiness of an argument value (None, "" and 0 are false)
Truthy(v) == v # None /\ v # <<>> /\ v # <<"int", "0">>

----------------------------------------------------------------------------
(* Dicts                                                                   *)

Keys(d) == {d[i][1] : i \in 1..Len(d)}

Has(d, k) == k \in Keys(d)

\* d[k], for k in d
At(d, k) == d[CHOOSE i \in 1..Len(d) : d[i][1] = k][2]

\* d.get(k): None when absent
Get(d, k) == IF Has(d, k) THEN At(d, k) ELSE None

\* d[k] = v: in place when present, appended otherwise
Put(d, k, v) ==
    IF Has(d, k)
    THEN [i \in 1..Len(d) |-> IF d[i][1] = k THEN <<k, v>> ELSE d[i]]
    ELSE Append(d, <<k, v>>)

\* del d[k]
Del(d, k) == SelectSeq(d, LAMBDA kv : kv[1] # k)

\* d1 == d2 on dicts: the same key/value pairs, in any order
DictEq(d1, d2) == {d1[i] : i \in 1..Len(d1)} = {d2[i] : i \in 1..Len(d2)}

\* The keys the model uses, in the order Python's string comparison gives them.
KeyOrder == <<"assignee_id", "body", "employee_id", "end_date", "name", "query",
              "start_date", "subject", "title", "to_email", "topic">>

KeyRank(k) == CHOOSE i \in 1..Len(KeyOrder) : KeyOrder[i] = k

\* sorted(d.items()): keys are distinct, so the order is the keys' order
RECURSIVE SortedItems(_)
SortedItems(d) ==
    IF d = <<>> THEN <<>>
    ELSE LET m == CHOOSE i \in 1..Len(d) :
                     \A j \in 1..Len(d) : KeyRank(d[i][1]) <= KeyRank(d[j][1])
         IN  <<d[m]>> \o SortedItems(SelectSeq(d, LAMBDA kv : kv[1] # d[m][1]))

----------------------------------------------------------------------------
(* Tool registry and dependency graph                                      *)

\* The names _create_tools registers, in registration order.
tool_names == <<"rag_search", "query_employee_info", "query_reimbursement_status",
                "query_reimbursement_summary", "query_reimbursement_records",
                "create_work_order", "send_email">>

tool_map == {tool_names[i] : i \in 1..Len(tool_names)}

tool_dependencies ==
    [t \in {"query_reimbursement_summary", "query_reimbursement_status",
            "query_reimbursement_records", "create_work_order", "send_email"}
        |-> <<"query_employee_info">>]

\* self.tool_dependencies.get(tool_name, [])
DepsOf(t) == IF t \in DOMAIN tool_dependencies THEN tool_dependencies[t] ELSE <<>>

----------------------------------------------------------------------------
(* _validate_and_fix_plan                                                  *)
(*                                                                         *)
(* A step is [step_id, tool_name, arguments, origin]: tool_name "" is a    *)
(* missing or empty name; origin is the position of the step object in the *)
(* input list, 0 for a step the validator creates.  A plan is              *)
(* [kind, steps]: kind "list" carries a step list, "missing" has no        *)
(* "steps" key, "null" has a falsy non-list value (null, 0, false),        *)
(* "scalar" a truthy value that is no list of objects.  An intent is       *)
(* [intent_type, requires_policy, requires_data, requires_generation,      *)
(* entities_kind, entities, estimated_steps]; entities_kind "null" is an   *)
(* "entities" value of null.                                               *)

\* step_key = (tool_name, str(sorted(step.get("arguments", {}).items())))
StepKeyUnsorted(step) == <<step.tool_name, step.arguments>>

StepKey(step) == <<step.tool_name, SortedItems(step.arguments)>>

\* The step the validator creates for a missing query_employee_info.
SynthesizedStep(fixed_steps, employee_name) ==
    [step_id   |-> Len(fixed_steps) + 1,
     tool_name |-> "query_employee_info",
     arguments |-> <<<<"name", employee_name>>>>,
     origin    |-> 0]

\* The dependency loop creating no step
ShouldInsertNever(dep, intent, acc) == FALSE

\* Whether the dependency loop creates a step for dep (lines 462-478).
ShouldInsert(dep, intent, acc) ==
    /\ dep \notin acc.executed_tools
    /\ dep = "query_employee_info"
    /\ Truthy(Get(intent.entities, "employee_name"))
    /\ ~Truthy(Get(intent.entities, "employee_id"))
    /\ ~\E i \in 1..Len(acc.fixed_steps) :
            /\ acc.fixed_steps[i].tool_name = "query_employee_info"
            /\ Get(acc.fixed_steps[i].arguments, "name")
                   = Get(intent.entities, "employee_name")

\* for dep in deps: ... (lines 461-486).  intent.get("entities", {}) of a null
\* "entities" is None, and None.get raises.
RECURSIVE CheckDeps(_, _, _)
CheckDeps(deps, intent, acc) ==
    IF deps = <<>> \/ acc.raised THEN acc
    ELSE LET dep == Head(deps)
         IN  IF dep \in acc.executed_tools \/ dep # "query_employee_info"
             THEN CheckDeps(Tail(deps), intent, acc)
             ELSE IF intent.entities_kind = "null"
             THEN [acc EXCEPT !.raised = TRUE]
             ELSE IF ShouldInsert(dep, intent, acc)
             THEN CheckDeps(Tail(deps), intent,
                     [acc EXCEPT
                        !.fixed_steps = Append(@, SynthesizedStep(@,
                                            Get(intent.entities, "employee_name"))),
                        !.executed_tools = @ \cup {"query_employee_info"}])
             ELSE CheckDeps(Tail(deps), intent, acc)

\* One pass of the loop of lines 441-495 over a step that is kept.
KeepStep(step, intent, acc) ==
    LET acc1 == [acc EXCEPT !.seen_steps = @ \cup {StepKey(step)}]
        acc2 == CheckDeps(DepsOf(step.tool_name), intent, acc1)
    IN  IF acc2.raised THEN acc2
        ELSE [acc2 EXCEPT !.fixed_steps = Append(@, step),
                          !.executed_tools = @ \cup {step.tool_name}]

\* for i, step in enumerate(steps): ... (lines 441-495)
RECURSIVE ValidateFrom(_, _, _, _)
ValidateFrom(steps, intent, i, acc) ==
    IF i > Len(steps) \/ acc.raised THEN acc
    ELSE LET step == steps[i]
         IN  IF step.tool_name = "" THEN ValidateFrom(steps, intent, i + 1, acc)
             ELSE IF step.tool_name \notin tool_map
             THEN ValidateFrom(steps, intent, i + 1, acc)
             ELSE IF StepKey(step) \in acc.seen_steps
             THEN ValidateFrom(steps, intent, i + 1, acc)
             ELSE ValidateFrom(steps, intent, i + 1, KeepStep(step, intent, acc))

\* The steps with the step_id they came with
RenumberNot(fixed_steps) == fixed_steps

\* for i, step in enumerate(fixed_steps, 1): step["step_id"] = i
Renumber(fixed_steps) ==
    [i \in 1..Len(fixed_steps) |-> [fixed_steps[i] EXCEPT !.step_id = i]]

\* _validate_and_fix_plan(plan, intent): [raised, plan]
ValidateAndFixPlan(plan, intent) ==
    IF plan.kind = "scalar" THEN [raised |-> TRUE, plan |-> plan]
    ELSE IF plan.kind # "list" \/ plan.steps = <<>>
    THEN [raised |-> FALSE, plan |-> plan]
    ELSE LET acc == ValidateFrom(plan.steps, intent, 1,
                        [fixed_steps |-> <<>>, executed_tools |-> {},
                         seen_steps |-> {}, raised |-> FALSE])
         IN  [raised |-> acc.raised,
              plan   |-> IF acc.raised THEN plan
                         ELSE [kind |-> "list", steps |-> Renumber(acc.fixed_steps)]]

----------------------------------------------------------------------------
(* Dates: EntityExtractor.extract_date_range and ParameterValidator._parse_date *)

DigitSeq == <<"0", "1", "2", "3", "4", "5", "6", "7", "8", "9">>

DigitVal(c) == (CHOOSE i \in 1..10 : DigitSeq[i] = c) - 1

\* int(s) for a string of digits
RECURSIVE StrToInt(_)
StrToInt(s) ==
    IF s = <<>> THEN 0
    ELSE 10 * StrToInt(SubSeq(s, 1, Len(s) - 1)) + DigitVal(s[Len(s)])

\* str(n) for n >= 0
RECURSIVE IntToStr(_)
IntToStr(n) ==
    IF n < 10 THEN <<DigitSeq[n + 1]>>
    ELSE IntToStr(n \div 10) \o <<DigitSeq[(n % 10) + 1]>>

\* f"{n:02d}"
Pad2(n) == IF n < 10 THEN <<"0">> \o IntToStr(n) ELSE IntToStr(n)

\* strftime("%Y"): four digits
Pad4(n) ==
    IF n < 10 THEN <<"0", "0", "0">> \o IntToStr(n)
    ELSE IF n < 100 THEN <<"0", "0">> \o IntToStr(n)
    ELSE IF n < 1000 THEN <<"0">> \o IntToStr(n)
    ELSE IntToStr(n)

IsLeap(y) == (y % 4 = 0 /\ y % 100 # 0) \/ y % 400 = 0

\* The days of a month with every February 28 days long.
DaysInMonthNoLeap(y, m) ==
    IF m \in {1, 3, 5, 7, 8, 10, 12} THEN 31
    ELSE IF m \in {4, 6, 9, 11} THEN 30
    ELSE 28

\* (datetime(y, m + 1, 1) - timedelta(days=1)).day, and 31 for December
DaysInMonth(y, m) ==
    IF m \in {1, 3, 5, 7, 8, 10, 12} THEN 31
    ELSE IF m \in {4, 6, 9, 11} THEN 30
    ELSE IF IsLeap(y) THEN 29 ELSE 28

NoDateRange == [start_date |-> None, end_date |-> None, month |-> 0, year |-> 0]

Yue == "u6708"

\* re.search(r'(\d+)U+6708U+4EFD?', text): the leftmost digit at which a run of
\* digits reaching up to a U+6708 starts; 0 when there is none.
MonthMatchStart(text) ==
    LET runEnd(i) == CHOOSE j \in i..Len(text) :
                        /\ \A k \in i..j : text[k] \in Digits
                        /\ (j = Len(text) \/ text[j + 1] \notin Digits)
        ok == {i \in 1..Len(text) :
                 /\ text[i] \in Digits
                 /\ runEnd(i) < Len(text)
                 /\ text[runEnd(i) + 1] = Yue}
    IN  IF ok = {} THEN 0 ELSE CHOOSE i \in ok : \A j \in ok : i <= j

\* group(1) of the match that starts at i
MonthMatchDigits(text, i) ==
    SubSeq(text, i, CHOOSE e \in i..Len(text) :
                        /\ \A k \in i..e : text[k] \in Digits
                        /\ text[e + 1] = Yue)

\* int(month_match.group(1)), 0 when there is no match
MonthNumber(text, i) == IF i = 0 THEN 0 ELSE StrToInt(MonthMatchDigits(text, i))

\* The first and last day of month m of year y, as extract_date_range writes them.
MonthRange(y, m) ==
    [start_date |-> Pad4(y) \o <<"-">> \o Pad2(m) \o <<"-", "0", "1">>,
     end_date   |-> IF m = 12 THEN Pad4(y) \o <<"-", "1", "2", "-", "3", "1">>
                    ELSE Pad4(y) \o <<"-">> \o Pad2(m) \o <<"-">> \o IntToStr(DaysInMonth(y, m)),
     month |-> m, year |-> y]

\* The branches of extract_date_range for a text whose month match gives mm.
DateRangeFor(text, now, mm) ==
    LET has(p) == Contains(text, p)
    IN  IF 1 <= mm /\ mm <= 12 THEN MonthRange(now.year, mm)
        ELSE IF has(<<"u4E0A", "u534A", "u5E74">>) \/ has(<<"u524D", "u534A", "u5E74">>)
        THEN [NoDateRange EXCEPT
                !.start_date = Pad4(now.year) \o <<"-", "0", "1", "-", "0", "1">>,
                !.end_date = Pad4(now.year) \o <<"-", "0", "6", "-", "3", "0">>]
        ELSE IF has(<<"u4E0B", "u534A", "u5E74">>) \/ has(<<"u540E", "u534A", "u5E74">>)
        THEN [NoDateRange EXCEPT
                !.start_date = Pad4(now.year) \o <<"-", "0", "7", "-", "0", "1">>,
                !.end_date = Pad4(now.year) \o <<"-", "1", "2", "-", "3", "1">>]
        ELSE IF has(<<"u4E0A", "u4E2A", "u6708">>) \/ has(<<"u4E0A", "u6708">>)
        THEN IF now.month = 1 THEN MonthRange(now.year - 1, 12)
             ELSE MonthRange(now.year, now.month - 1)
        ELSE IF has(<<"u672C", "u6708">>) \/ has(<<"u8FD9", "u4E2A", "u6708">>)
        THEN MonthRange(now.year, now.month)
        ELSE NoDateRange

\* extract_date_range(text) with datetime.now() in month now.month of now.year
ExtractDateRange(text, now) ==
    DateRangeFor(text, now, MonthNumber(text, MonthMatchStart(text)))

\* re.match(r'\d{4}-\d{2}-\d{2}', s): a match at the start, anything may follow
MatchesIsoPrefix(s) ==
    /\ Len(s) >= 10
    /\ \A i \in {1, 2, 3, 4, 6, 7, 9, 10} : s[i] \in Digits
    /\ s[5] = "-" /\ s[8] = "-"

\* strptime's %m and %d fields: one or two digits in range (a day may also be
\* a space and a digit)
MonthField(f) == IsDigit(f) /\ Len(f) <= 2 /\ StrToInt(f) \in 1..12

DayField(f) ==
    \/ IsDigit(f) /\ Len(f) <= 2 /\ StrToInt(f) \in 1..31
    \/ Len(f) = 2 /\ f[1] = " " /\ f[2] \in Digits \ {"0"}

DayValue(f) == IF f[1] = " " THEN DigitVal(f[2]) ELSE StrToInt(f)

\* datetime.strptime(s, "%Y<sep1>%m<sep2>%d<suffix>"): [ok, y, m, d]; ok is
\* FALSE where strptime raises ValueError.
Strptime(s, sep1, sep2, suffix) ==
    LET bad == [ok |-> FALSE, y |-> 0, m |-> 0, d |-> 0]
        rest == SubSeq(s, 6, Len(s))
        cut == {i \in 1..Len(rest) : rest[i] = sep2}
    IN  IF ~(Len(s) >= 5 /\ IsDigit(SubSeq(s, 1, 4)) /\ s[5] = sep1) \/ cut = {}
        THEN bad
        ELSE LET c == CHOOSE i \in cut : \A j \in cut : i <= j
                 mf == SubSeq(rest, 1, c - 1)
                 tail == SubSeq(rest, c + 1, Len(rest))
                 df == SubSeq(tail, 1, Len(tail) - Len(suffix))
             IN  IF /\ Len(tail) >= Len(suffix)
                    /\ SubSeq(tail, Len(tail) - Len(suffix) + 1, Len(tail)) = suffix
                    /\ MonthField(mf) /\ DayField(df)
                    /\ StrToInt(SubSeq(s, 1, 4)) >= 1
                    /\ DayValue(df) <= DaysInMonth(StrToInt(SubSeq(s, 1, 4)), StrToInt(mf))
                 THEN [ok |-> TRUE, y |-> StrToInt(SubSeq(s, 1, 4)),
                       m |-> StrToInt(mf), d |-> DayValue(df)]
                 ELSE bad

\* dt.strftime('%Y-%m-%d')
Strftime(t) == Pad4(t.y) \o <<"-">> \o Pad2(t.m) \o <<"-">> \o Pad2(t.d)

\* The loop over the formats: the first that parses is written back as
\* YYYY-MM-DD, and the string is returned as it is when none does.
FirstParsed(date_str, tries) ==
    LET ok == {i \in 1..Len(tries) : tries[i].ok}
    IN  IF ok = {} THEN date_str
        ELSE Strftime(tries[CHOOSE i \in ok : \A j \in ok : i <= j])

\* re.match(pattern, date_str) raises TypeError for a date_str that is true
\* and not a string (line 267 is outside the try of line 271)
ParseDateRaises(date_str) == Truthy(date_str) /\ ~IsStr(date_str)

\* _parse_date(date_str)
ParseDate(date_str) ==
    IF ~Truthy(date_str) THEN date_str
    ELSE IF MatchesIsoPrefix(date_str) THEN date_str
    ELSE FirstParsed(date_str, <<Strptime(date_str, "-", "-", <<>>),
                                 Strptime(date_str, "/", "/", <<>>),
                                 Strptime(date_str, "u5E74", Yue, <<"u65E5">>)>>)

----------------------------------------------------------------------------
(* ParameterValidator.validate_and_fix_params                              *)

ReimbursementTools == {"query_reimbursement_summary", "query_reimbursement_records",
                       "query_reimbursement_status"}

\* The employee_id rule of the reimbursement tools without the context lookup.
FillEmployeeIdNever(params, context) == params

\* lines 220-223: a missing or empty employee_id is taken from the context
FillEmployeeId(params, context) ==
    IF (~Has(params, "employee_id") \/ ~Truthy(At(params, "employee_id")))
       /\ Has(context, "employee_id")
    THEN Put(params, "employee_id", At(context, "employee_id"))
    ELSE params

\* lines 229-232
FixDate(params, k) ==
    IF Has(params, k) /\ Truthy(At(params, k))
    THEN Put(params, k, ParseDate(At(params, k)))
    ELSE params

\* lines 237-240: the dates of date_range that are set are written back
WriteDateRange(params, date_range) ==
    LET p1 == IF Truthy(date_range.start_date)
              THEN Put(params, "start_date", date_range.start_date) ELSE params
    IN  IF Truthy(date_range.end_date) THEN Put(p1, "end_date", date_range.end_date)
        ELSE p1

\* lines 235-240 for sd = str(fixed_params.get("start_date", ""))
FixMonthPhraseOf(params, sd, now) ==
    IF Contains(sd, <<"m", "o", "n", "t", "h">>) \/ Contains(sd, <<Yue>>)
    THEN WriteDateRange(params, ExtractDateRange(sd, now))
    ELSE params

\* lines 235-240: a start_date that is a month phrase becomes a date range
FixMonthPhrase(params, now) ==
    FixMonthPhraseOf(params,
                     IF Has(params, "start_date") THEN Str(At(params, "start_date"))
                     ELSE <<>>,
                     now)

\* Whether validate_and_fix_params(tool_name, params, context) raises: the
\* only calls of it that can are the two of _parse_date (lines 229-232).
ValidateAndFixParamsRaises(tool_name, params) ==
    /\ tool_name \in ReimbursementTools
    /\ \E k \in {"start_date", "end_date"} :
          Has(params, k) /\ Truthy(At(params, k)) /\ ParseDateRaises(At(params, k))

\* validate_and_fix_params(tool_name, params, context), where it returns
ValidateAndFixParams(tool_name, params, context, now) ==
    IF tool_name = "query_employee_info"
    THEN IF Has(params, "employee_id") /\ Truthy(At(params, "employee_id"))
         THEN LET emp_id == Upper(Strip(Str(At(params, "employee_id"))))
              IN  IF ~StartsWith(emp_id, <<"E">>)
                  THEN IF ~Has(params, "name") \/ ~Truthy(At(params, "name"))
                       THEN Del(Put(params, "name", emp_id), "employee_id")
                       ELSE params
                  ELSE Put(params, "employee_id", emp_id)
         ELSE params
    ELSE IF tool_name \in ReimbursementTools
    THEN FixMonthPhrase(
            FixDate(FixDate(FillEmployeeId(params, context), "start_date"), "end_date"),
            now)
    ELSE IF tool_name = "create_work_order"
    THEN IF Has(params, "assignee_id")
         THEN LET assignee_id == Upper(Strip(Str(At(params, "assignee_id"))))
              IN  IF StartsWith(assignee_id, <<"E">>)
                  THEN Put(params, "assignee_id", assignee_id)
                  ELSE IF Has(context, "assignee_id")
                  THEN Put(params, "assignee_id", At(context, "assignee_id"))
                  ELSE params
         ELSE params
    ELSE params

----------------------------------------------------------------------------
(* _execute_step                                                           *)

\* "U+5DE5 U+53F7 U+FF1A" (employee number, full-width colon) and
\* "U+59D3 U+540D U+FF1A" (name), the labels query_employee_info_tool prints.
IdLabel == <<"u5DE5", "u53F7", "uFF1A">>

NameLabel == <<"u59D3", "u540D", "uFF1A">>

\* text.split("\n")
RECURSIVE SplitLines(_)
SplitLines(text) ==
    LET nl == {i \in 1..Len(text) : text[i] = "\n"}
    IN  IF nl = {} THEN <<text>>
        ELSE LET c == CHOOSE i \in nl : \A j \in nl : i <= j
             IN  <<SubSeq(text, 1, c - 1)>> \o SplitLines(SubSeq(text, c + 1, Len(text)))

\* line.split(label)[1], for a line that contains label: the text between the
\* first occurrence of label and the next one
AfterLabel(line, label) ==
    LET occ == Occurrences(line, label)
        first == CHOOSE i \in occ : \A j \in occ : i <= j
        from == first + Len(label)
        later == {i \in occ : i >= from}
        upto == IF later = {} THEN Len(line)
                ELSE (CHOOSE i \in later : \A j \in later : i <= j) - 1
    IN  SubSeq(line, from, upto)

\* s.split(): whether there is a token, and s.split()[0]
HasToken(s) == Strip(s) # <<>>

FirstToken(s) ==
    LET t == Strip(s)
        sp == {i \in 1..Len(t) : IsSpace(t[i])}
    IN  IF sp = {} THEN t
        ELSE SubSeq(t, 1, (CHOOSE i \in sp : \A j \in sp : i <= j) - 1)

\* the first line that contains label; 0 when none does
FirstLineWith(lines, label) ==
    LET hit == {i \in 1..Len(lines) : Contains(lines[i], label)}
    IN  IF hit = {} THEN 0 ELSE CHOOSE i \in hit : \A j \in hit : i <= j

\* Lines 597-606 for the lines of the text, the first of them with the number
\* label being line il and the first with the name label line nl (0: none).
ScrapeAt(lines, il, nl, context) ==
    LET ctx1 == IF il = 0 THEN context
                ELSE Put(context, "employee_id", FirstToken(AfterLabel(lines[il], IdLabel)))
    IN  IF il # 0 /\ ~HasToken(AfterLabel(lines[il], IdLabel))
        THEN [raised |-> TRUE, context |-> context]
        ELSE [raised |-> FALSE,
              context |-> IF nl = 0 THEN ctx1
                          ELSE Put(ctx1, "employee_name",
                                   Strip(AfterLabel(lines[nl], NameLabel)))]

ScrapeLines(lines, context) ==
    ScrapeAt(lines, FirstLineWith(lines, IdLabel), FirstLineWith(lines, NameLabel),
             context)

\* Lines 593-606: the employee number and name are copied from the tool's text
\* into the context.  [raised, context]; split()[0] of a blank raises IndexError
\* before anything is written.
Scrape(result_text, context) == ScrapeLines(SplitLines(result_text), context)

\* The isinstance(value, str) branch, for normalized = value.strip()
NormalizeStripped(value, normalized, context_key, context) ==
    IF normalized = <<>> THEN At(context, context_key)
    ELSE IF \/ Contains(Lower(normalized),
                        <<"e","m","p","l","o","y","e","e","_","i","d">>)
            \/ Contains(normalized, <<"u5DE5", "u53F7">>)
    THEN At(context, context_key)
    ELSE IF /\ StartsWith(Upper(normalized), <<"E">>)
            /\ IsDigit(SubSeq(normalized, 2, Len(normalized)))
    THEN Upper(normalized)
    ELSE value

\* _normalize_identifier(value, context_key), a closure over context
NormalizeIdentifier(value, context_key, context) ==
    IF ~Has(context, context_key) THEN value
    ELSE IF value = None THEN At(context, context_key)
    ELSE IF ~IsStr(value) THEN value
    ELSE NormalizeStripped(value, Strip(value), context_key, context)

\* lines 584-587 for one of the two keys
NormalizeKey(arguments, k, context) ==
    IF Has(arguments, k)
    THEN Put(arguments, k, NormalizeIdentifier(At(arguments, k), "employee_id", context))
    ELSE arguments

\* The parameters of each tool function: those without a default, and all.
RequiredParams(tool_name) ==
    CASE tool_name = "rag_search" -> {"query"}
      [] tool_name = "query_employee_info" -> {}
      [] tool_name = "query_reimbursement_status" -> {"employee_id"}
      [] tool_name = "query_reimbursement_summary" -> {"employee_id", "start_date", "end_date"}
      [] tool_name = "query_reimbursement_records" -> {"employee_id"}
      [] tool_name = "create_work_order" -> {"title", "assignee_id"}
      [] tool_name = "send_email" -> {"to_email", "subject", "body"}

OptionalParams(tool_name) ==
    CASE tool_name = "rag_search" -> {}
      [] tool_name = "query_employee_info" -> {"employee_id", "name", "department"}
      [] tool_name = "query_reimbursement_status" ->
            {"reimbursement_id", "start_date", "end_date", "status"}
      [] tool_name = "query_reimbursement_summary" -> {"category"}
      [] tool_name = "query_reimbursement_records" ->
            {"start_date", "end_date", "status", "limit"}
      [] tool_name = "create_work_order" ->
            {"description", "priority", "category", "duplicate_reason",
             "request_id", "action"}
      [] tool_name = "send_email" -> {"cc_email", "bcc_email", "is_html"}

\* The messages of the TypeError Python raises when tool.func(**arguments)
\* cannot bind: "... got an unexpected keyword argument ..." and
\* "... missing 1 required positional argument ...", cut to their key words.
MsgUnexpected == <<"u","n","e","x","p","e","c","t","e","d"," ","k","e","y","w","o","r","d">>

MsgMissing == <<"m","i","s","s","i","n","g"," ","r","e","q","u","i","r","e","d">>

MsgIndexError == <<"l","i","s","t"," ","i","n","d","e","x">>

\* "expected string or bytes-like object", the TypeError of re.match
MsgExpectedString == <<"e","x","p","e","c","t","e","d"," ","s","t","r","i","n","g">>

\* "" when the call binds, else the TypeError's message
BindError(tool_name, arguments) ==
    IF Keys(arguments) \ (RequiredParams(tool_name) \cup OptionalParams(tool_name)) # {}
    THEN MsgUnexpected
    ELSE IF RequiredParams(tool_name) \ Keys(arguments) # {}
    THEN MsgMissing
    ELSE <<>>

\* The prefixes of the error strings of lines 550 and 609-617.
ErrParam == <<"u53C2", "u6570", "u9519", "u8BEF">>

PrefixParam == ErrParam \o <<":", " ">>

PrefixToolParam == <<"u8C03", "u7528", "u5DE5", "u5177">> \o ErrParam \o <<":", " ">>

ErrNotExist == <<"u4E0D", "u5B58", "u5728">>

PrefixNotFound == <<"u6570", "u636E">> \o ErrNotExist \o <<":", " ">>

PrefixFailed == <<"u8C03", "u7528", "u5DE5", "u5177", "u5931", "u8D25", ":", " ">>

PrefixUnknownTool == <<"u672A", "u77E5", "u5DE5", "u5177", ":", " ">>

\* The except clauses of lines 609-617: the error string for an exception.
ErrorOf(exc, msg) ==
    IF exc = "TypeError"
    THEN IF \/ Contains(Lower(msg), <<"m","i","s","s","i","n","g">>)
            \/ Contains(Lower(msg), <<"r","e","q","u","i","r","e","d">>)
         THEN PrefixParam \o msg
         ELSE PrefixToolParam \o msg
    ELSE IF exc = "FileNotFoundError" THEN PrefixNotFound \o msg
    ELSE PrefixFailed \o msg

\* What tool.func(**arguments) did: it returned text, or raised exc with msg;
\* NotCalled when the attempt ended before line 590.
Returns(text) == [kind |-> "return", text |-> text, exc |-> "", msg |-> <<>>]

Raises(exc, msg) == [kind |-> "raise", text |-> None, exc |-> exc, msg |-> msg]

NotCalled == [kind |-> "none", text |-> None, exc |-> "", msg |-> <<>>]

\* The outcome of one attempt: [success, result, error, context, called,
\* call_args], with the context as the attempt leaves it, whether tool.func
\* was called, and with which arguments.
Outcome(success, result, error, context, arguments, did) ==
    [success |-> success, result |-> result, error |-> error, context |-> context,
     called |-> TRUE, call_args |-> arguments, did |-> did]

\* Lines 593-608, the tool having returned out.text
AfterReturn(tool_name, out, context, arguments, scraped) ==
    IF tool_name = "query_employee_info" /\ scraped.raised
    THEN Outcome(FALSE, None, ErrorOf("IndexError", MsgIndexError), context, arguments,
                 out)
    ELSE Outcome(TRUE, out.text, None,
                 IF tool_name = "query_employee_info" THEN scraped.context ELSE context,
                 arguments, out)

\* Line 590, result = tool.func(**arguments), and what follows it
CallTool(tool_name, out, context, arguments) ==
    IF BindError(tool_name, arguments) # <<>>
    THEN Outcome(FALSE, None, ErrorOf("TypeError", BindError(tool_name, arguments)),
                 context, arguments, Raises("TypeError", BindError(tool_name, arguments)))
    ELSE IF out.kind = "raise"
    THEN Outcome(FALSE, None, ErrorOf(out.exc, out.msg), context, arguments, out)
    ELSE AfterReturn(tool_name, out, context, arguments,
                     Scrape(Str(out.text), context))

\* Lines 584-590
NormalizeAndCall(tool_name, out, context, arguments) ==
    CallTool(tool_name, out, context,
             NormalizeKey(NormalizeKey(arguments, "employee_id", context),
                          "assignee_id", context))

\* Lines 563-565: a lookup by name writes the name into the context
NoteName(tool_name, arguments, context) ==
    IF tool_name = "query_employee_info" /\ Has(arguments, "name")
       /\ Truthy(At(arguments, "name"))
    THEN Put(context, "employee_name", At(arguments, "name"))
    ELSE context

\* Lines 563-608 for the arguments the parameter validator returned
ExecuteValidated(tool_name, out, context, arguments) ==
    NormalizeAndCall(tool_name, out, NoteName(tool_name, arguments, context), arguments)

\* _execute_step(step, context), the tool's body behaving as out says:
\* out.kind "return" with out.text, or "raise" with out.exc and out.msg.
ExecuteStep(step, context, out, now) ==
    IF step.tool_name \notin tool_map
    THEN [success |-> FALSE, result |-> None, error |-> PrefixUnknownTool,
          context |-> context, called |-> FALSE, call_args |-> <<>>,
          did |-> NotCalled]
    ELSE IF ValidateAndFixParamsRaises(step.tool_name, step.arguments)
    THEN [success |-> FALSE, result |-> None,
          error |-> ErrorOf("TypeError", MsgExpectedString),
          context |-> context, called |-> FALSE, call_args |-> <<>>,
          did |-> NotCalled]
    ELSE ExecuteValidated(step.tool_name, out, context,
            ValidateAndFixParams(step.tool_name, step.arguments, context, now))

----------------------------------------------------------------------------
(* _execute_step_with_retry, _fix_parameters, _generate_suggestion          *)

\* max_retries: int = 2
max_retries == 2

\* "U+53C2 U+6570 U+9519 U+8BEF" in error or "missing" in error.lower()
ParamShaped(error) ==
    Contains(error, ErrParam) \/ Contains(Lower(error), <<"m","i","s","s","i","n","g">>)

\* "U+6570 U+636E U+4E0D U+5B58 U+5728" in error or "U+4E0D U+5B58 U+5728" in error
NotFoundShaped(error) ==
    Contains(error, <<"u6570", "u636E">> \o ErrNotExist) \/ Contains(error, ErrNotExist)

\* The loop body giving up one attempt early.
AfterFailureShort(n, error) ==
    IF ParamShaped(error) /\ n < max_retries - 1 THEN "fix_and_continue"
    ELSE IF NotFoundShaped(error) THEN "not_found"
    ELSE IF n < max_retries - 1 THEN "continue"
    ELSE "exhausted"

\* Lines 638-657, for the failed attempt number n (from 0) of
\* range(max_retries + 1): what the loop does next.
AfterFailure(n, error) ==
    IF ParamShaped(error) /\ n < max_retries THEN "fix_and_continue"
    ELSE IF NotFoundShaped(error) THEN "not_found"
    ELSE IF n < max_retries THEN "continue"
    ELSE "exhausted"

\* _fix_parameters leaving the arguments as they are
FixParametersNothing(arguments, context) == arguments

\* _fix_parameters(step, error, context): the step's arguments afterwards
FixParameters(arguments, context) ==
    LET a1 == IF Has(arguments, "employee_id") /\ ~Truthy(At(arguments, "employee_id"))
                 /\ Has(context, "employee_id")
              THEN Put(arguments, "employee_id", At(context, "employee_id"))
              ELSE arguments
    IN  IF Has(a1, "assignee_id") /\ ~Truthy(At(a1, "assignee_id"))
           /\ Has(context, "employee_id")
        THEN Put(a1, "assignee_id", At(context, "employee_id"))
        ELSE a1

\* _generate_suggestion(tool_name, error): the canned texts, cut to their
\* first four characters
GenerateSuggestion(tool_name) ==
    CASE tool_name = "query_employee_info" -> <<"u8BF7", "u68C0", "u67E5", "u5458">>
      [] tool_name = "query_reimbursement_summary" -> <<"u8BF7", "u786E", "u8BA4", "u5458">>
      [] tool_name = "rag_search" -> <<"u77E5", "u8BC6", "u5E93", "u53EF">>
      [] OTHER -> <<"u8BF7", "u68C0", "u67E5", "u8F93">>

----------------------------------------------------------------------------
(* Values the inputs are drawn from                                        *)

\* The name Zhang San (U+5F20 U+4E09).
ZhangSan == <<"u5F20", "u4E09">>

E001 == <<"E", "0", "0", "1">>

E002 == <<"E", "0", "0", "2">>

D0301 == <<"2", "0", "2", "4", "-", "0", "3", "-", "0", "1">>

D0331 == <<"2", "0", "2", "4", "-", "0", "3", "-", "3", "1">>

\* "chai lv fei" (travel expenses), U+5DEE U+65C5 U+8D39
Question == <<"u5DEE", "u65C5", "u8D39">>

HrMail == <<"h", "r", "@", "c", "o">>

\* A step as the LLM writes it; the step_id it carries is arbitrary.
LlmStep(tool_name, arguments) ==
    [step_id |-> 7, tool_name |-> tool_name, arguments |-> arguments, origin |-> 0]

SummaryArgs ==
    <<<<"employee_id", E001>>, <<"start_date", D0301>>, <<"end_date", D0331>>>>

SummaryArgsReordered ==
    <<<<"start_date", D0301>>, <<"end_date", D0331>>, <<"employee_id", E001>>>>

SummaryArgsNoId == <<<<"start_date", D0301>>, <<"end_date", D0331>>>>

MailArgs == <<<<"to_email", HrMail>>, <<"subject", Question>>, <<"body", Question>>>>

\* The steps plans are built from: every registered tool that has a dependency
\* rule or is a dependency, an unknown tool, a step without a tool name, and
\* the same call written with its arguments in two orders.
StepPool ==
    { LlmStep("rag_search", <<<<"query", Question>>>>),
      LlmStep("query_employee_info", <<<<"name", ZhangSan>>>>),
      LlmStep("query_employee_info", <<<<"employee_id", E001>>>>),
      LlmStep("query_reimbursement_summary", SummaryArgs),
      LlmStep("query_reimbursement_summary", SummaryArgsReordered),
      LlmStep("query_reimbursement_summary", SummaryArgsNoId),
      LlmStep("send_email", MailArgs),
      LlmStep("create_work_order",
              <<<<"title", Question>>, <<"assignee_id", ZhangSan>>>>),
      LlmStep("generate_email", <<<<"topic", Question>>>>),
      LlmStep("", <<>>) }

\* The longest plan the validator is given.
MaxPlanLen == 3

\* The step object at position i of the input list.
WithOrigins(steps) == [i \in 1..Len(steps) |-> [steps[i] EXCEPT !.origin = i]]

ListPlans(pool, n) ==
    { [kind |-> "list", steps |-> WithOrigins(q)] :
        q \in UNION { [1..k -> pool] : k \in 0..n } }

OddPlans == { [kind |-> k, steps |-> <<>>] : k \in {"missing", "null", "scalar"} }

MkIntent(kind, entities) ==
    [intent_type |-> "complex_task", requires_policy |-> FALSE,
     requires_data |-> TRUE, requires_generation |-> FALSE,
     entities_kind |-> kind, entities |-> entities, estimated_steps |-> 2]

\* The intents the LLM may return: no entities, a name only, a name and an ID,
\* an empty name, and "entities": null.
IntentPool ==
    { MkIntent("dict", <<>>),
      MkIntent("dict", <<<<"employee_name", ZhangSan>>>>),
      MkIntent("dict", <<<<"employee_name", ZhangSan>>, <<"employee_id", E001>>>>),
      MkIntent("dict", <<<<"employee_name", <<>> >>, <<"employee_id", None>>>>),
      MkIntent("null", <<>>) }

----------------------------------------------------------------------------
(* RAGRetriever: _keyword_search, _rerank, _adaptive_threshold,            *)
(* _filter_by_threshold, retrieve                                          *)
(*                                                                         *)
(* A source is [text, score, keyword_score, combined_score]; a key the     *)
(* dict does not have reads as the default the code's get gives it (0).    *)
(* Scores and thresholds are counted in units of 0.0001.  The floating-    *)
(* point results that are not the decimal they print close to (0.7 - 0.05  *)
(* is 0.6499999999999999, 0.65 + 0.05 is 0.7000000000000001) are one unit  *)
(* below or above it, which orders them as the floats are ordered against  *)
(* every score that is a multiple of 0.0001.                               *)

\* 'score': getattr(node, 'score', None): a node without a score
NoScore == -1

\* The characters of [U+4E00-U+9FA5] the queries and texts are written with.
CjkChars == {"u5DEE", "u65C5", "u8D39"}

CharClass(c) ==
    IF c \in CjkChars THEN "cjk"
    ELSE IF \E i \in 1..26 : c = LowerAlpha[i] \/ c = UpperAlpha[i] THEN "letter"
    ELSE "other"

\* re.findall(r'[U+4E00-U+9FA5]+|[a-zA-Z]+', query)
RECURSIVE Keywords(_)
Keywords(query) ==
    IF query = <<>> THEN <<>>
    ELSE LET stop == {i \in 1..Len(query) : CharClass(query[i]) # CharClass(query[1])}
             n == IF stop = {} THEN Len(query)
                  ELSE (CHOOSE i \in stop : \A j \in stop : i <= j) - 1
         IN  IF CharClass(query[1]) = "other" THEN Keywords(Tail(query))
             ELSE <<SubSeq(query, 1, n)>> \o Keywords(SubSeq(query, n + 1, Len(query)))

\* text.count(sub), for a non-empty sub: occurrences that do not overlap
RECURSIVE CountOf(_, _)
CountOf(text, sub) ==
    IF Occurrences(text, sub) = {} THEN 0
    ELSE LET first == CHOOSE i \in Occurrences(text, sub) :
                         \A j \in Occurrences(text, sub) : i <= j
         IN  1 + CountOf(SubSeq(text, first + Len(sub), Len(text)), sub)

\* The score of one source (lines 64-70)
RECURSIVE KeywordScore(_, _)
KeywordScore(keywords, text) ==
    IF keywords = <<>> THEN 0
    ELSE CountOf(Lower(text), Lower(Head(keywords)))
            * (IF Len(Head(keywords)) > 1 THEN 2 ELSE 1)
         + KeywordScore(Tail(keywords), text)

\* list.sort(key=lambda x: x.get(key, 0), reverse=True): stable
RECURSIVE InsertDesc(_, _, _)
InsertDesc(sorted, x, key) ==
    IF sorted = <<>> THEN <<x>>
    ELSE IF Head(sorted)[key] >= x[key]
    THEN <<Head(sorted)>> \o InsertDesc(Tail(sorted), x, key)
    ELSE <<x>> \o sorted

RECURSIVE SortDesc(_, _)
SortDesc(results, key) ==
    IF results = <<>> THEN <<>>
    ELSE InsertDesc(SortDesc(SubSeq(results, 1, Len(results) - 1), key),
                    results[Len(results)], key)

\* scored_sources of _keyword_search for the keywords found
ScoredSources(keywords, all_sources) ==
    SelectSeq([i \in 1..Len(all_sources) |->
                  [all_sources[i] EXCEPT
                      !.keyword_score = KeywordScore(keywords, all_sources[i].text)]],
              LAMBDA source : source.keyword_score > 0)

\* _keyword_search(query, all_sources, top_k)
KeywordSearch(query, all_sources, top_k) ==
    IF Keywords(query) = <<>> THEN <<>>
    ELSE Take(SortDesc(ScoredSources(Keywords(query), all_sources), "keyword_score"),
              top_k)

\* (result.get('score', 0) or 0) * 0.6
VectorPart(result) == ((IF result.score = NoScore THEN 0 ELSE result.score) * 6) \div 10

\* min(1.0, keyword_score / 10.0) * 0.4
KeywordPart(result) ==
    IF 400 * result.keyword_score < 4000 THEN 400 * result.keyword_score ELSE 4000

\* The pass without the test of line 142 / 158: every result a new entry.
AddToMapAlways(result_map, result, amount) ==
    Append(result_map, [result EXCEPT !.combined_score = amount])

\* One pass of either loop of _rerank over result, adding amount
AddToMap(result_map, result, amount) ==
    IF \E i \in 1..Len(result_map) : result_map[i].text = result.text
    THEN [i \in 1..Len(result_map) |->
             IF result_map[i].text = result.text
             THEN [result_map[i] EXCEPT !.combined_score = @ + amount]
             ELSE result_map[i]]
    ELSE Append(result_map, [result EXCEPT !.combined_score = amount])

\* The two loops of _rerank (lines 140-165); weight is "vector" or "keyword"
RECURSIVE Merge(_, _, _)
Merge(result_map, results, weight) ==
    IF results = <<>> THEN result_map
    ELSE Merge(AddToMap(result_map, Head(results),
                        IF weight = "vector" THEN VectorPart(Head(results))
                        ELSE KeywordPart(Head(results))),
               Tail(results), weight)

\* _rerank(vector_results, keyword_results, top_k)
Rerank(vector_results, keyword_results, top_k) ==
    Take(SortDesc(Merge(Merge(<<>>, vector_results, "vector"), keyword_results, "keyword"),
                  "combined_score"),
         top_k)

\* threshold - 0.05, threshold + 0.05 and threshold - 0.1 in floating point
Minus005(t) == IF t = 7000 THEN 6499 ELSE t - 500

Plus005(t) == IF t = 6500 THEN 7001 ELSE t + 500

Minus01(t) ==
    IF t = 8000 THEN 7001 ELSE IF t = 7001 THEN 6001 ELSE IF t = 6499 THEN 5499
    ELSE t - 1000

Larger(a, b) == IF a >= b THEN a ELSE b

Smaller(a, b) == IF a <= b THEN a ELSE b

\* The threshold by the length of the query (lines 96-103)
LengthThreshold(query) ==
    IF Len(query) < 10 THEN 7500 ELSE IF Len(query) > 50 THEN 6500 ELSE 7000

\* The threshold without the adjustment by the number of results
AdaptiveThresholdByLength(query, results) == LengthThreshold(query)

\* _adaptive_threshold(query, results)
AdaptiveThreshold(query, results) ==
    IF Len(results) < 3 THEN Larger(6000, Minus005(LengthThreshold(query)))
    ELSE IF Len(results) > 10 THEN Smaller(8000, Plus005(LengthThreshold(query)))
    ELSE LengthThreshold(query)

\* _filter_by_threshold(results, threshold)
FilterByThreshold(results, threshold) ==
    SelectSeq(results, LAMBDA result : result.score # NoScore /\ result.score >= threshold)

\* Line 230 without the pre-filter list to fall back on.
FinalResultsNoFallback(filtered_results, reranked_results, top_k) ==
    Take(filtered_results, top_k)

\* final_results (line 230)
FinalResults(filtered_results, reranked_results, top_k) ==
    IF filtered_results # <<>> THEN Take(filtered_results, top_k)
    ELSE Take(reranked_results, top_k)

\* formatted_sources: 'score': source.get('score') or source.get('combined_score')
Formatted(final_results, hybrid) ==
    [i \in 1..Len(final_results) |->
        [text |-> final_results[i].text,
         score |-> IF hybrid /\ final_results[i].score \in {NoScore, 0}
                   THEN final_results[i].combined_score
                   ELSE final_results[i].score]]

\* threshold = max(0.5, threshold - 0.1)
RelaxedThreshold(threshold) == Larger(5000, Minus01(threshold))

\* Lines 224-230: the relaxation of the threshold, and the choice of the list
Relaxed(reranked_results, threshold, filtered_results, top_k) ==
    IF Len(filtered_results) < top_k /\ Len(reranked_results) > 0
    THEN FinalResults(FilterByThreshold(reranked_results,
                                        RelaxedThreshold(threshold)),
                      reranked_results, top_k)
    ELSE FinalResults(filtered_results, reranked_results, top_k)

\* Lines 219-230 for a threshold
Thresholded(reranked_results, threshold, top_k) ==
    Relaxed(reranked_results, threshold, FilterByThreshold(reranked_results, threshold),
            top_k)

\* Lines 219-245 for the reranked list
HybridFrom(query, reranked_results, top_k) ==
    Formatted(Thresholded(reranked_results, AdaptiveThreshold(query, reranked_results),
                          top_k),
              TRUE)

\* The "sources" retrieve(query, top_k) returns, the index being ready and its
\* answer to the vector query being vector_results.
Retrieve(query, top_k, vector_results, hybrid) ==
    IF ~hybrid THEN Formatted(Take(vector_results, top_k), FALSE)
    ELSE HybridFrom(query,
                    Rerank(vector_results,
                           KeywordSearch(query, vector_results, top_k), top_k * 2),
                    top_k)

\* reranked_results (lines 213-216)
RerankedOf(query, top_k, vector_results) ==
    Rerank(vector_results, KeywordSearch(query, vector_results, top_k), top_k * 2)

\* final_results (line 230), and vector_results[:top_k] without hybrid search
FinalOf(query, top_k, vector_results, hybrid) ==
    IF ~hybrid THEN Take(vector_results, top_k)
    ELSE Thresholded(RerankedOf(query, top_k, vector_results),
                     AdaptiveThreshold(query, RerankedOf(query, top_k, vector_results)),
                     top_k)

\* vector_top_k (line 191)
VectorTopK(top_k, hybrid) == IF hybrid THEN top_k * 2 ELSE top_k

----------------------------------------------------------------------------
(* The JSON object in the text of an LLM response (lines 310-321, 388-399)  *)
(*                                                                         *)
(* A parsed JSON value is [t, s, members]: t is "str", "num", "null",      *)
(* "true", "false", "obj" or "arr"; s holds the characters of a string or  *)
(* the digits of a number; members holds the <<key, value>> pairs of an    *)
(* object in the order of a Python dict, and <<"", value>> for each item   *)
(* of an array.  The texts parsed are written with objects, arrays,        *)
(* strings without escapes, unsigned integers, null, true and false.       *)

Quote == "\""

JStr(chars) == [t |-> "str", s |-> chars, members |-> <<>>]

JNum(digits) == [t |-> "num", s |-> digits, members |-> <<>>]

JLit(name) == [t |-> name, s |-> <<>>, members |-> <<>>]

JObj(members) == [t |-> "obj", s |-> <<>>, members |-> members]

JArr(items) ==
    [t |-> "arr", s |-> <<>>, members |-> [i \in 1..Len(items) |-> <<<<>>, items[i]>>]]

\* text.find(c): the index, from 0, of the first c, or -1
RECURSIVE FindFrom(_, _, _)
FindFrom(text, c, i) ==
    IF i > Len(text) THEN -1
    ELSE IF text[i] = c THEN i - 1
    ELSE FindFrom(text, c, i + 1)

Find(text, c) == FindFrom(text, c, 1)

\* text.rfind(c): the index, from 0, of the last c, or -1
RECURSIVE RFindFrom(_, _, _)
RFindFrom(text, c, i) ==
    IF i < 1 THEN -1
    ELSE IF text[i] = c THEN i - 1
    ELSE RFindFrom(text, c, i - 1)

RFind(text, c) == RFindFrom(text, c, Len(text))

\* text[start:end] for 0 <= start <= end <= len(text)
Slice(text, start, end) == SubSeq(text, start + 1, end)

\* The result of a decoding step that failed, and of one that gave value and
\* stopped before position next.
Undecoded == [ok |-> FALSE, value |-> JLit("null"), next |-> 0]

Decoded(value, next) == [ok |-> TRUE, value |-> value, next |-> next]

\* json's WHITESPACE: the position of the first character from i on that is
\* no white space
RECURSIVE SkipSpace(_, _)
SkipSpace(text, i) ==
    IF i <= Len(text) /\ text[i] \in {" ", "\t", "\n", "\r"}
    THEN SkipSpace(text, i + 1)
    ELSE i

\* The position of the quote that ends the string whose characters start at
\* i, or 0: a control character inside a string is an error.
RECURSIVE StringEnd(_, _)
StringEnd(text, i) ==
    IF i > Len(text) THEN 0
    ELSE IF text[i] = Quote THEN i
    ELSE IF text[i] \in {"\n", "\t", "\r"} THEN 0
    ELSE StringEnd(text, i + 1)

\* py_scanstring at the opening quote at i
DecodeString(text, i) ==
    IF StringEnd(text, i + 1) = 0 THEN Undecoded
    ELSE Decoded(JStr(SubSeq(text, i + 1, StringEnd(text, i + 1) - 1)),
                 StringEnd(text, i + 1) + 1)

\* The position after the digits that start at i
RECURSIVE DigitsEnd(_, _)
DigitsEnd(text, i) ==
    IF i <= Len(text) /\ text[i] \in Digits THEN DigitsEnd(text, i + 1) ELSE i

\* NUMBER_RE at i: 0, or a digit from 1 to 9 and the digits after it
DecodeNumber(text, i) ==
    IF text[i] = "0" THEN Decoded(JNum(<<"0">>), i + 1)
    ELSE Decoded(JNum(SubSeq(text, i, DigitsEnd(text, i) - 1)), DigitsEnd(text, i))

\* null, true or false at i
DecodeLiteral(text, i, chars, name) ==
    IF /\ i + Len(chars) - 1 <= Len(text)
       /\ SubSeq(text, i, i + Len(chars) - 1) = chars
    THEN Decoded(JLit(name), i + Len(chars))
    ELSE Undecoded

\* A dict with value stored under key: a key written twice keeps its place
\* and takes the later value.
JPut(members, key, value) ==
    IF \E k \in 1..Len(members) : members[k][1] = key
    THEN [k \in 1..Len(members) |->
             IF members[k][1] = key THEN <<key, value>> ELSE members[k]]
    ELSE Append(members, <<key, value>>)

RECURSIVE DecodeValue(_, _)
RECURSIVE DecodeMembers(_, _, _)
RECURSIVE DecodeItems(_, _, _)

\* After a member of an object: a comma and the next member, or the end
AfterMember(text, i, members) ==
    IF i > Len(text) THEN Undecoded
    ELSE IF text[i] = "}" THEN Decoded(JObj(members), i + 1)
    ELSE IF text[i] = "," THEN DecodeMembers(text, SkipSpace(text, i + 1), members)
    ELSE Undecoded

\* The value of the member whose key is keyd, after the colon expected at i
MemberValue(text, i, members, keyd) ==
    IF i > Len(text) \/ text[i] # ":" THEN Undecoded
    ELSE IF ~DecodeValue(text, SkipSpace(text, i + 1)).ok THEN Undecoded
    ELSE AfterMember(text,
             SkipSpace(text, DecodeValue(text, SkipSpace(text, i + 1)).next),
             JPut(members, keyd.value.s,
                  DecodeValue(text, SkipSpace(text, i + 1)).value))

\* JSONObject: the member that starts at i, and the members after it
DecodeMembers(text, i, members) ==
    IF i > Len(text) \/ text[i] # Quote THEN Undecoded
    ELSE IF ~DecodeString(text, i).ok THEN Undecoded
    ELSE MemberValue(text, SkipSpace(text, DecodeString(text, i).next), members,
                     DecodeString(text, i))

\* After an item of an array
AfterItem(text, i, items) ==
    IF i > Len(text) THEN Undecoded
    ELSE IF text[i] = "]" THEN Decoded(JArr(items), i + 1)
    ELSE IF text[i] = "," THEN DecodeItems(text, SkipSpace(text, i + 1), items)
    ELSE Undecoded

\* JSONArray: the item that starts at i, and the items after it
DecodeItems(text, i, items) ==
    IF ~DecodeValue(text, i).ok THEN Undecoded
    ELSE AfterItem(text, SkipSpace(text, DecodeValue(text, i).next),
                   Append(items, DecodeValue(text, i).value))

\* scan_once at i
DecodeValue(text, i) ==
    IF i > Len(text) THEN Undecoded
    ELSE IF text[i] = Quote THEN DecodeString(text, i)
    ELSE IF text[i] = "{"
    THEN IF SkipSpace(text, i + 1) <= Len(text) /\ text[SkipSpace(text, i + 1)] = "}"
         THEN Decoded(JObj(<<>>), SkipSpace(text, i + 1) + 1)
         ELSE DecodeMembers(text, SkipSpace(text, i + 1), <<>>)
    ELSE IF text[i] = "["
    THEN IF SkipSpace(text, i + 1) <= Len(text) /\ text[SkipSpace(text, i + 1)] = "]"
         THEN Decoded(JArr(<<>>), SkipSpace(text, i + 1) + 1)
         ELSE DecodeItems(text, SkipSpace(text, i + 1), <<>>)
    ELSE IF text[i] = "n" THEN DecodeLiteral(text, i, <<"n", "u", "l", "l">>, "null")
    ELSE IF text[i] = "t" THEN DecodeLiteral(text, i, <<"t", "r", "u", "e">>, "true")
    ELSE IF text[i] = "f" THEN DecodeLiteral(text, i, <<"f", "a", "l", "s", "e">>, "false")
    ELSE IF text[i] \in Digits THEN DecodeNumber(text, i)
    ELSE Undecoded

\* json.loads(text): [ok, value]; not ok is JSONDecodeError, which text after
\* the value ("Extra data") raises too.
JsonLoads(text) ==
    IF /\ DecodeValue(text, SkipSpace(text, 1)).ok
       /\ SkipSpace(text, DecodeValue(text, SkipSpace(text, 1)).next) = Len(text) + 1
    THEN [ok |-> TRUE, value |-> DecodeValue(text, SkipSpace(text, 1)).value]
    ELSE [ok |-> FALSE, value |-> JLit("null")]

\* Lines 314-321 and 392-399: the text from the first "{" to the last "}",
\* parsed; not ok is the ValueError of the else branch or json.loads raising.
ParseJsonObject(text) ==
    IF Find(text, "{") >= 0 /\ RFind(text, "}") + 1 > Find(text, "{")
    THEN JsonLoads(Slice(text, Find(text, "{"), RFind(text, "}") + 1))
    ELSE [ok |-> FALSE, value |-> JLit("null")]

----------------------------------------------------------------------------
(* run(): state                                                            *)

AllRuns == {1, 2}

Runs(sc) ==
    IF sc \in {"single", "long"} THEN {1} ELSE IF sc = "interleaved" THEN {1, 2} ELSE {}

\* max_steps: int = 8
max_steps == 8

\* The slot holding the context object of every run, were context an attribute
\* of the shared agent.
SharedContext(r) == 1

\* context = {} is a local of run(): each invocation has its own object.
ContextOf(r) == r

\* The fallback of _understand_intent (lines 330-337).
DefaultIntent ==
    [intent_type |-> "simple_query", requires_policy |-> TRUE,
     requires_data |-> FALSE, requires_generation |-> FALSE,
     entities_kind |-> "dict", entities |-> <<>>, estimated_steps |-> 2]

\* The fallback of _generate_plan (lines 411-420).
FallbackPlan(user_input) ==
    [kind |-> "list",
     steps |-> <<[step_id |-> 1, tool_name |-> "rag_search",
                  arguments |-> <<<<"query", user_input>>>>, origin |-> 0]>>]

NoPlan == [kind |-> "missing", steps |-> <<>>]

NoStepResult ==
    [tool_name |-> "", errors |-> <<>>,
     ret |-> [success |-> FALSE, result |-> None, error |-> None,
              suggestion |-> None, attempts |-> 0]]

NoCall ==
    [made |-> FALSE, tool_name |-> "", step_arguments |-> <<>>, call_args |-> <<>>,
     results_before |-> <<>>, did |-> NotCalled]

NoPrompt == [question |-> <<>>, policy_info |-> <<>>, data_info |-> <<>>,
             other_info |-> <<>>]

\* Every run-related variable as the runs in started enter run().
RunsIdle(started) ==
    /\ pc = [r \in AllRuns |-> IF r \in started THEN "IntentClassification" ELSE "Off"]
    /\ intents = [r \in AllRuns |-> DefaultIntent]
    /\ plans = [r \in AllRuns |-> NoPlan]
    /\ ctx = [c \in AllRuns |-> <<>>]
    /\ idx = [r \in AllRuns |-> 0]
    /\ attempts = [r \in AllRuns |-> 0]
    /\ execution_results = [r \in AllRuns |-> <<>>]
    /\ prompt = [r \in AllRuns |-> NoPrompt]
    /\ answer = [r \in AllRuns |-> None]
    /\ sources = [r \in AllRuns |-> <<>>]
    /\ errors = [r \in AllRuns |-> <<>>]
    /\ last_step = [r \in AllRuns |-> NoStepResult]
    /\ last_call = [r \in AllRuns |-> NoCall]
    /\ ctx_writers = [c \in AllRuns |-> {}]
    /\ read_from = [r \in AllRuns |-> {}]

----------------------------------------------------------------------------
(* run(): what the LLM and the tool back-ends may answer                   *)

LiSi == <<"u674E", "u56DB">>

\* query_employee_info_tool's text for one employee found, cut to the two
\* lines the agent reads; the second has a lower-case number and more text
\* on the line.
FoundE001 == IdLabel \o E001 \o <<"\n">> \o NameLabel \o ZhangSan

Founde002 == IdLabel \o <<"e", "0", "0", "2", " ", "x", "\n">> \o NameLabel \o LiSi

\* "no matching employee": a text without the labels
FoundNobody == <<"u672A", "u627E", "u5230">>

\* a record whose number is blank
FoundBlankId == IdLabel \o <<" ", "\n">> \o NameLabel \o LiSi

OkText == <<"o", "k">>

\* A time-out, and two missing files: open() names the path in the message of
\* its FileNotFoundError, and the second path contains the word "missing".
Timeout == Raises("Exception", <<"t", "i", "m", "e", "o", "u", "t">>)

NoDatabase == Raises("FileNotFoundError", <<"d", "b">>)

MissingFile ==
    Raises("FileNotFoundError", <<"m", "i", "s", "s", "i", "n", "g", ".", "d", "b">>)

\* What the body of a tool may do once it is called.
ToolOutcomes(sc, tool_name) ==
    IF sc = "interleaved"
    THEN IF tool_name = "query_employee_info"
         THEN {Returns(FoundE001), Returns(Founde002)}
         ELSE {Returns(OkText), Timeout}
    ELSE IF sc = "long"
    THEN IF tool_name = "query_employee_info"
         THEN {Returns(FoundE001), Timeout}
         ELSE {Returns(OkText), Timeout}
    ELSE IF tool_name = "query_employee_info"
    THEN {Returns(FoundE001), Returns(Founde002), Returns(FoundNobody),
          Returns(FoundBlankId), Timeout, NoDatabase, MissingFile}
    ELSE {Returns(OkText), Timeout, NoDatabase, MissingFile}

MonthPhrase == <<"3", Yue, "u4EFD">>

LookupThenRecords ==
    <<LlmStep("query_employee_info", <<<<"name", ZhangSan>>>>),
      LlmStep("query_reimbursement_records", <<<<"employee_id", <<>> >>>>)>>

TwoLookupsThenRecords ==
    <<LlmStep("query_employee_info", <<<<"name", ZhangSan>>>>),
      LlmStep("query_employee_info", <<<<"employee_id", E002>>>>),
      LlmStep("query_reimbursement_records", <<<<"employee_id", <<>> >>>>)>>

SummaryOfMonth ==
    <<LlmStep("query_reimbursement_summary", <<<<"start_date", MonthPhrase>>>>)>>

PolicyThenMail ==
    <<LlmStep("rag_search", <<<<"query", Question>>>>),
      LlmStep("send_email", MailArgs)>>

\* A plan of more steps than run() executes: a lookup, a query that needs its
\* result, and searches with different queries.
LongPlan ==
    LookupThenRecords \o
    [i \in 1..(max_steps - 1) |->
        LlmStep("rag_search", <<<<"query", Question \o IntToStr(i)>>>>)]

ListPlan(steps) == [kind |-> "list", steps |-> WithOrigins(steps)]

LlmError == [kind |-> "error", intent |-> DefaultIntent, plan |-> NoPlan, text |-> None]

LlmJsonIntent(i) == [LlmError EXCEPT !.kind = "json", !.intent = i]

LlmJsonPlan(p) == [LlmError EXCEPT !.kind = "json", !.plan = p]

LlmText(t) == [LlmError EXCEPT !.kind = "text", !.text = t]

\* self.llm.invoke(prompt) in _understand_intent: it raises or its text has no
\* JSON object ("error"), or the text parses to an intent.
IntentResponses(sc) ==
    IF sc = "interleaved"
    THEN {LlmJsonIntent(MkIntent("dict", <<<<"employee_name", ZhangSan>>>>))}
    ELSE IF sc = "long" THEN {LlmError}
    ELSE {LlmError,
          LlmJsonIntent(MkIntent("dict", <<<<"employee_name", ZhangSan>>>>)),
          LlmJsonIntent(MkIntent("null", <<>>))}

\* The same in _generate_plan.
PlanResponses(sc) ==
    IF sc = "interleaved"
    THEN {LlmError, LlmJsonPlan(ListPlan(LookupThenRecords))}
    ELSE IF sc = "long"
    THEN {LlmError, LlmJsonPlan(ListPlan(LookupThenRecords)),
          LlmJsonPlan(ListPlan(LongPlan))}
    ELSE {LlmError} \cup
         {LlmJsonPlan(ListPlan(q)) :
             q \in {TwoLookupsThenRecords, SummaryOfMonth, PolicyThenMail}} \cup
         {LlmJsonPlan(q) : q \in OddPlans}

\* The same in _aggregate_results: it raises, or answers with a text, which
\* may be empty.
AnswerResponses(sc) ==
    IF sc \in {"interleaved", "long"} THEN {LlmText(OkText)}
    ELSE {LlmError, LlmText(OkText), LlmText(<<>>)}

----------------------------------------------------------------------------
(* run(): the stages                                                       *)

\* steps of plan.get("steps", []), not cut
StepsToRunAll(p) == p.steps

\* steps of plan.get("steps", [])[:self.max_steps]
StepsToRun(p) == SubSeq(p.steps, 1, IF Len(p.steps) < max_steps THEN Len(p.steps)
                                    ELSE max_steps)

\* intent = self._understand_intent(question)
UnderstandIntent(r) ==
    /\ pc[r] = "IntentClassification"
    /\ \E resp \in IntentResponses(scenario) :
          intents' = [intents EXCEPT
                        ![r] = IF resp.kind = "json" THEN resp.intent ELSE DefaultIntent]
    /\ pc' = [pc EXCEPT ![r] = "PlanGeneration"]
    /\ UNCHANGED <<moreVars, valVars, retVars, unitVars, scenario, clock, plans, ctx, idx, attempts, execution_results,
                   prompt, answer, sources, errors, last_step, last_call,
                   ctx_writers, read_from>>

\* _generate_plan up to the parsed JSON (lines 388-399).  A failure takes the
\* except branch, whose plan is returned as it is.
GeneratePlan(r) ==
    /\ pc[r] = "PlanGeneration"
    /\ \E resp \in PlanResponses(scenario) :
          IF resp.kind = "json"
          THEN /\ plans' = [plans EXCEPT ![r] = resp.plan]
               /\ pc' = [pc EXCEPT ![r] = "PlanValidation"]
          ELSE /\ plans' = [plans EXCEPT ![r] = FallbackPlan(Question)]
               /\ pc' = [pc EXCEPT ![r] = "PlanFallback"]
    /\ UNCHANGED <<moreVars, valVars, retVars, unitVars, scenario, clock, intents, ctx, idx, attempts,
                   execution_results, prompt, answer, sources, errors, last_step,
                   last_call, ctx_writers, read_from>>

\* Lines 782-786 of run(): context = {}, and the slice of the step list, which
\* raises TypeError when "steps" is null.
EnterLoop(r, p) ==
    /\ ctx' = [ctx EXCEPT ![ContextOf(r)] = <<>>]
    /\ ctx_writers' = [ctx_writers EXCEPT ![ContextOf(r)] = {}]
    /\ idx' = [idx EXCEPT ![r] = 1]
    /\ attempts' = [attempts EXCEPT ![r] = 0]
    /\ pc' = [pc EXCEPT ![r] = IF p.kind = "null" THEN "Raised"
                               ELSE IF StepsToRun(p) = <<>> THEN "ResultAggregation"
                               ELSE "StepExecution"]

\* The plan _generate_plan returns when the validator gave v: an exception
\* inside the try gives the fallback plan.
PlanOrFallback(v, user_input) == IF v.raised THEN FallbackPlan(user_input) ELSE v.plan

\* _generate_plan returning p, and run() entering its loop
ReturnPlan(r, p) ==
    /\ plans' = [plans EXCEPT ![r] = p]
    /\ EnterLoop(r, p)

\* plan = self._validate_and_fix_plan(plan, intent) inside _generate_plan's try,
\* then run() enters its loop.
ValidatePlan(r) ==
    /\ pc[r] = "PlanValidation"
    /\ ReturnPlan(r, PlanOrFallback(ValidateAndFixPlan(plans[r], intents[r]), Question))
    /\ UNCHANGED <<moreVars, valVars, retVars, unitVars, scenario, clock, intents, execution_results, prompt, answer,
                   sources, errors, last_step, last_call, read_from>>

\* run() enters its loop with the fallback plan of a failed plan generation.
StartFallbackPlan(r) ==
    /\ pc[r] = "PlanFallback"
    /\ EnterLoop(r, plans[r])
    /\ UNCHANGED <<moreVars, valVars, retVars, unitVars, scenario, clock, intents, plans, execution_results, prompt,
                   answer, sources, errors, last_step, last_call, read_from>>

\* The entry run() appends to execution_results (lines 796-807).
ExecutionResult(step, ret) ==
    [step_id |-> step.step_id, tool_name |-> step.tool_name,
     arguments |-> step.arguments, success |-> ret.success, result |-> ret.result,
     error |-> ret.error, suggestion |-> ret.suggestion]

\* The dict _execute_step_with_retry returns (lines 632-636, 647-652, 659-663)
\* when the loop ends in how after attempt number n.
ReturnOf(how, res, tool_name, n) ==
    IF how = "success"
    THEN [success |-> TRUE, result |-> res.result, error |-> None,
          suggestion |-> None, attempts |-> n + 1]
    ELSE IF how = "not_found"
    THEN [success |-> FALSE, result |-> None, error |-> res.error,
          suggestion |-> GenerateSuggestion(tool_name), attempts |-> n + 1]
    ELSE [success |-> FALSE, result |-> None, error |-> res.error,
          suggestion |-> None, attempts |-> max_retries + 1]

\* The loop goes round again, with the step _fix_parameters returned.
TryAgain(r, errs) ==
    /\ attempts' = [attempts EXCEPT ![r] = @ + 1]
    /\ errors' = [errors EXCEPT ![r] = errs]
    /\ UNCHANGED <<moreVars, execution_results, last_step, idx, pc>>

\* _execute_step_with_retry returns ret; run() records it (lines 796-807) and
\* goes on to the next step, or to the aggregation after the last.
FinishStep(r, step, errs, ret) ==
    /\ attempts' = [attempts EXCEPT ![r] = 0]
    /\ errors' = [errors EXCEPT ![r] = <<>>]
    /\ execution_results' = [execution_results EXCEPT
                                ![r] = Append(@, ExecutionResult(step, ret))]
    /\ last_step' = [last_step EXCEPT
                        ![r] = [tool_name |-> step.tool_name, errors |-> errs,
                                ret |-> ret]]
    /\ idx' = [idx EXCEPT ![r] = @ + 1]
    /\ pc' = [pc EXCEPT ![r] = IF idx[r] + 1 > Len(StepsToRun(plans[r]))
                               THEN "ResultAggregation" ELSE "StepExecution"]

\* What one attempt leaves behind: the context, who wrote it and who read it,
\* the call made, and the step as _fix_parameters leaves it.
AfterAttempt(r, c, step, res, how, errs) ==
    /\ ctx' = [ctx EXCEPT ![c] = res.context]
    /\ ctx_writers' = [ctx_writers EXCEPT
                         ![c] = IF res.context # ctx[c] THEN @ \cup {r} ELSE @]
    /\ read_from' = [read_from EXCEPT ![r] = ctx_writers[c]]
    /\ last_call' = [last_call EXCEPT
          ![r] = IF res.called
                 THEN [made |-> TRUE, tool_name |-> step.tool_name,
                       step_arguments |-> step.arguments,
                       call_args |-> res.call_args,
                       results_before |-> execution_results[r],
                       did |-> res.did]
                 ELSE [@ EXCEPT !.did = NotCalled]]
    /\ IF how = "fix_and_continue"
       THEN /\ plans' = [plans EXCEPT
                   ![r].steps[idx[r]].arguments = FixParameters(@, res.context)]
            /\ TryAgain(r, errs)
       ELSE /\ UNCHANGED plans
            /\ IF how = "continue" THEN TryAgain(r, errs)
               ELSE FinishStep(r, step, errs, ReturnOf(how, res, step.tool_name, attempts[r]))

\* The attempt gave res: what the loop of _execute_step_with_retry does with it
Attempted(r, c, step, res) ==
    AfterAttempt(r, c, step, res,
                 IF res.success THEN "success" ELSE AfterFailure(attempts[r], res.error),
                 IF res.success THEN errors[r] ELSE Append(errors[r], res.error))

\* One pass of the loop of _execute_step_with_retry for the step in hand: the
\* attempt, and what follows it.  When the loop returns, run() records the
\* result.
ExecuteAttempt(r) ==
    /\ pc[r] = "StepExecution"
    /\ \E out \in ToolOutcomes(scenario, plans[r].steps[idx[r]].tool_name) :
          Attempted(r, ContextOf(r), plans[r].steps[idx[r]],
                    ExecuteStep(plans[r].steps[idx[r]], ctx[ContextOf(r)], out, clock))
    /\ UNCHANGED <<moreVars, valVars, retVars, unitVars, scenario, clock, intents, prompt, answer, sources>>

\* "\\n\\n".join(texts): the separator is the four characters \n\n as written
RECURSIVE Join(_)
Join(texts) ==
    IF texts = <<>> THEN <<>>
    ELSE IF Len(texts) = 1 THEN texts[1]
    ELSE texts[1] \o <<"\\", "n", "\\", "n">> \o Join(Tail(texts))

DataTools == ReimbursementTools \cup {"query_employee_info"}

\* "[U+90AE U+4EF6 U+53D1 U+9001] ", the tag of a send_email result
MailTag == <<"[", "u90AE", "u4EF6", "u53D1", "u9001", "]", " ">>

\* The three buckets of _aggregate_results (lines 698-722) over results.
RECURSIVE Buckets(_, _)
Buckets(results, acc) ==
    IF results = <<>> THEN acc
    ELSE LET result == Head(results)
             tool_result == Str(result.result)
         IN  IF ~result.success THEN Buckets(Tail(results), acc)
             ELSE IF result.tool_name = "rag_search"
             THEN Buckets(Tail(results),
                          [acc EXCEPT !.policy_info = Append(@, tool_result)])
             ELSE IF result.tool_name \in DataTools
             THEN Buckets(Tail(results),
                          [acc EXCEPT !.data_info = Append(@, tool_result)])
             ELSE IF result.tool_name = "send_email"
             THEN Buckets(Tail(results),
                          [acc EXCEPT !.other_info = Append(@, MailTag \o tool_result)])
             ELSE Buckets(Tail(results),
                          [acc EXCEPT !.other_info = Append(@, tool_result)])

NoPolicy == <<"(", "n", "o", " ", "p", "o", "l", "i", "c", "y", ")">>

NoData == <<"(", "n", "o", " ", "d", "a", "t", "a", ")">>

NoOther == <<"(", "n", "o", "n", "e", ")">>

\* policy_text, data_text, other_text of the buckets b
JoinedBuckets(question, b) ==
    [question |-> question,
     policy_info |-> IF b.policy_info # <<>> THEN Join(b.policy_info) ELSE NoPolicy,
     data_info |-> IF b.data_info # <<>> THEN Join(b.data_info) ELSE NoData,
     other_info |-> IF b.other_info # <<>> THEN Join(b.other_info) ELSE NoOther]

\* The text of the prompt that varies: the question and the three joined buckets.
PromptOf(question, results) ==
    JoinedBuckets(question,
                  Buckets(results, [policy_info |-> <<>>, data_info |-> <<>>,
                                    other_info |-> <<>>]))

\* The answer of the except branch (lines 753-758), cut to its variable parts
\* and the first characters of its fixed text.
FallbackAnswer(p) ==
    <<"u5DF2", "u83B7", "u53D6">> \o Take(p.policy_info, 200) \o <<".", ".", ".">>
        \o Take(p.data_info, 200) \o <<".", ".", ".">>

\* sources of run() (lines 819-825)
SourcesOf(results) ==
    LET hits == SelectSeq(results,
                    LAMBDA res : res.success /\ res.tool_name = "rag_search")
    IN  [i \in 1..Len(hits) |->
            [type |-> "policy", content |-> Take(Str(hits[i].result), 200)]]

\* _aggregate_results with prompt p, the LLM answering resp
Answered(r, resp, p) ==
    /\ prompt' = [prompt EXCEPT ![r] = p]
    /\ answer' = [answer EXCEPT
                    ![r] = IF resp.kind = "text" THEN resp.text ELSE FallbackAnswer(p)]

\* final_answer = self._aggregate_results(...), the sources, and the return.
AggregateResults(r) ==
    /\ pc[r] = "ResultAggregation"
    /\ \E resp \in AnswerResponses(scenario) :
          Answered(r, resp, PromptOf(Question, execution_results[r]))
    /\ sources' = [sources EXCEPT ![r] = SourcesOf(execution_results[r])]
    /\ pc' = [pc EXCEPT ![r] = "Done"]
    /\ UNCHANGED <<moreVars, valVars, retVars, unitVars, scenario, clock, intents, plans, ctx, idx, attempts,
                   execution_results, errors, last_step, last_call, ctx_writers,
                   read_from>>

\* The retriever's variables while no retrieval is modelled.
RetrieverIdle ==
    /\ index_ready = TRUE
    /\ use_hybrid = TRUE
    /\ query_in = <<>>
    /\ top_k_in = 1
    /\ candidates = <<>>
    /\ retrieved = <<>>
    /\ rpc = "off"

ValidatorIdle ==
    /\ plan_in = NoPlan
    /\ intent_in = DefaultIntent
    /\ plan_out = NoPlan
    /\ vpc = "off"

\* EmployeeEntity() and the dict of extract_all_entities before anything is set
NoEmployee == [name |-> None, employee_id |-> None, department |-> None]

NoEntities == [employee |-> NoEmployee, date_range |-> NoDateRange]

NoWorkOrderCall ==
    [made |-> FALSE, n |-> 0, at |-> 0, title |-> <<>>, assignee_id |-> <<>>,
     action |-> <<>>, duplicate_reason |-> None, before |-> <<>>,
     raised |-> FALSE, message |-> ""]

\* The variables of the functions checked on their own, while none of them is
\* modelled.
FixIdle ==
    /\ fix_tool = ""
    /\ fix_params = <<>>
    /\ fix_context = <<>>
    /\ fixed_once = <<>>
    /\ fixed_twice = <<>>
    /\ fpc = "off"

ExtIdle ==
    /\ text_in = <<>>
    /\ user_context = <<>>
    /\ entities_out = NoEntities
    /\ epc = "off"

WoIdle ==
    /\ work_orders = <<>>
    /\ wo_call = NoWorkOrderCall

DepIdle ==
    /\ dep_map = tool_dependencies
    /\ requested = ""
    /\ frames = <<>>
    /\ outer_i = 0
    /\ visited = {}
    /\ resolved = <<>>
    /\ dpc = "off"

\* What _understand_intent or _generate_plan did, before the call
NoStageResult ==
    [raised |-> FALSE, parsed |-> FALSE, value |-> JLit("null"), plan |-> NoPlan]

ParseIdle ==
    /\ stage_in = ""
    /\ resp_in = [kind |-> "", text |-> <<>>]
    /\ stage_intent = DefaultIntent
    /\ stage_out = NoStageResult
    /\ ppc = "off"

ThrIdle ==
    /\ th_query = <<>>
    /\ th_results = <<>>
    /\ th_top_k = 1
    /\ th_adapted = 0
    /\ th_used = 0
    /\ tpc = "off"

Callers == {1, 2}

RaceIdle ==
    /\ wo_pc = [c \in Callers |-> "off"]
    /\ wo_existing = [c \in Callers |-> <<>>]
    /\ wo_args = [c \in Callers |-> <<>>]
    /\ wo_first = <<>>

RerankIdle ==
    /\ rr_reranked = <<>>
    /\ rr_final = <<>>

MoreIdle == ParseIdle /\ ThrIdle /\ RaceIdle /\ RerankIdle

\* One run() on a fresh agent, in March 2024.
Init ==
    /\ scenario = "single"
    /\ clock = [year |-> 2024, month |-> 3]
    /\ ValidatorIdle
    /\ RetrieverIdle
    /\ FixIdle /\ ExtIdle /\ WoIdle /\ DepIdle /\ MoreIdle
    /\ RunsIdle(Runs(scenario))

\* Two run() calls on the same agent, started together.
InitConc ==
    /\ scenario = "interleaved"
    /\ clock = [year |-> 2024, month |-> 3]
    /\ ValidatorIdle
    /\ RetrieverIdle
    /\ FixIdle /\ ExtIdle /\ WoIdle /\ DepIdle /\ MoreIdle
    /\ RunsIdle(Runs(scenario))

\* One run() whose plan may be longer than max_steps.
InitLong ==
    /\ scenario = "long"
    /\ clock = [year |-> 2024, month |-> 3]
    /\ ValidatorIdle
    /\ RetrieverIdle
    /\ FixIdle /\ ExtIdle /\ WoIdle /\ DepIdle /\ MoreIdle
    /\ RunsIdle(Runs(scenario))

Next ==
    \/ \E r \in AllRuns : UnderstandIntent(r)
    \/ \E r \in AllRuns : GeneratePlan(r)
    \/ \E r \in AllRuns : ValidatePlan(r)
    \/ \E r \in AllRuns : StartFallbackPlan(r)
    \/ \E r \in AllRuns : ExecuteAttempt(r)
    \/ \E r \in AllRuns : AggregateResults(r)

Spec == Init /\ [][Next]_vars

SpecConc == InitConc /\ [][Next]_vars

SpecLong == InitLong /\ [][Next]_vars

----------------------------------------------------------------------------
(* Specification SpecValidate: _validate_and_fix_plan on drawn inputs       *)

InitValidate ==
    /\ plan_in \in ListPlans(StepPool, MaxPlanLen) \cup OddPlans
    /\ intent_in \in IntentPool
    /\ plan_out = NoPlan
    /\ vpc = "input"
    /\ scenario = "validate"
    /\ clock = [year |-> 2024, month |-> 3]
    /\ RunsIdle({})
    /\ RetrieverIdle
    /\ FixIdle /\ ExtIdle /\ WoIdle /\ DepIdle /\ MoreIdle

\* plan = self._validate_and_fix_plan(plan, intent), returning normally
ValidateReturns ==
    /\ vpc = "input"
    /\ ~ValidateAndFixPlan(plan_in, intent_in).raised
    /\ plan_out' = ValidateAndFixPlan(plan_in, intent_in).plan
    /\ vpc' = "validated"
    /\ UNCHANGED <<moreVars, plan_in, intent_in, scenario, clock, runVars, retVars, unitVars>>

\* the same call raising (AttributeError / TypeError out of the loop)
ValidateRaises ==
    /\ vpc = "input"
    /\ ValidateAndFixPlan(plan_in, intent_in).raised
    /\ vpc' = "raised"
    /\ UNCHANGED <<moreVars, plan_in, intent_in, plan_out, scenario, clock, runVars, retVars,
                   unitVars>>

NextValidate == ValidateReturns \/ ValidateRaises

SpecValidate == InitValidate /\ [][NextValidate]_vars

----------------------------------------------------------------------------
(* Claims about _validate_and_fix_plan                                     *)

\* The input positions of the steps kept in the validated plan.
KeptOrigins == {plan_out.steps[i].origin : i \in 1..Len(plan_out.steps)} \ {0}

\* Input steps i and j call the same tool with equal arguments.
SameCall(i, j) ==
    /\ plan_in.steps[i].tool_name = plan_in.steps[j].tool_name
    /\ DictEq(plan_in.steps[i].arguments, plan_in.steps[j].arguments)

\* C1: in the step list the validator returns, every step whose tool has a
\* declared dependency is preceded by a step for that dependency tool.
C1_DependencyStepPrecedes ==
    vpc = "validated" =>
        \A j \in 1..Len(plan_out.steps) :
            \A d \in 1..Len(DepsOf(plan_out.steps[j].tool_name)) :
                \E i \in 1..(j - 1) :
                    plan_out.steps[i].tool_name = DepsOf(plan_out.steps[j].tool_name)[d]

\* C6: of the input steps that call the same tool with equal arguments, every
\* occurrence after the first is dropped from the validated plan, and the first
\* is the one kept when its tool is registered.
C6_DuplicatesCollapsed ==
    vpc = "validated" =>
        \A j \in 1..Len(plan_in.steps) :
            IF \E i \in 1..(j - 1) : SameCall(i, j)
            THEN j \notin KeptOrigins
            ELSE plan_in.steps[j].tool_name \in tool_map => j \in KeptOrigins

\* C6 witness: two steps that are the same call with the arguments written in
\* a different order; the first is kept and the second dropped.
C6_Witness ==
    /\ vpc = "validated"
    /\ \E i, j \in 1..Len(plan_in.steps) :
          /\ i < j
          /\ SameCall(i, j)
          /\ plan_in.steps[i].arguments # plan_in.steps[j].arguments
          /\ i \in KeptOrigins
          /\ j \notin KeptOrigins

----------------------------------------------------------------------------
(* Claims about run()                                                      *)

\* The tools whose steps have succeeded among results.
SucceededTools(results) ==
    {results[i].tool_name : i \in {k \in 1..Len(results) : results[k].success}}

\* C2: in a run, a tool with a declared dependency is called only after a step
\* for its dependency tool has succeeded earlier in that run.
C2_DependencySucceededFirst ==
    \A r \in AllRuns :
        last_call[r].made =>
            \A d \in 1..Len(DepsOf(last_call[r].tool_name)) :
                DepsOf(last_call[r].tool_name)[d]
                    \in SucceededTools(last_call[r].results_before)

\* C3: once an attempt at a step has failed with a not-found-shaped error, no
\* further attempt is made: the step has been attempted once, and its result
\* is a failure with that error, the suggestion for its tool, and attempts = 1.
C3_NotFoundAttemptedOnce ==
    \A r \in AllRuns :
        /\ \A i \in 1..Len(errors[r]) : ~NotFoundShaped(errors[r][i])
        /\ (\E i \in 1..Len(last_step[r].errors) : NotFoundShaped(last_step[r].errors[i]))
              => /\ Len(last_step[r].errors) = 1
                 /\ ~last_step[r].ret.success
                 /\ last_step[r].ret.error = last_step[r].errors[1]
                 /\ last_step[r].ret.suggestion = GenerateSuggestion(last_step[r].tool_name)
                 /\ last_step[r].ret.attempts = 1

\* An error that is neither parameter-shaped nor not-found-shaped.
Generic(error) == ~ParamShaped(error) /\ ~NotFoundShaped(error)

\* All the attempts at the last finished step of run r failed, with generic errors.
AllGenericFailures(r) ==
    /\ last_step[r].tool_name # ""
    /\ ~last_step[r].ret.success
    /\ \A i \in 1..Len(last_step[r].errors) : Generic(last_step[r].errors[i])

\* C4: a step all of whose attempts fail with generic errors is attempted
\* max_retries + 1 times, and its result is a failure with
\* attempts = max_retries + 1; no step is ever attempted more often than that.
C4_GenericAttemptedToBudget ==
    \A r \in AllRuns :
        /\ Len(errors[r]) <= max_retries
        /\ Len(last_step[r].errors) <= max_retries + 1
        /\ AllGenericFailures(r) =>
              /\ Len(last_step[r].errors) = max_retries + 1
              /\ last_step[r].ret.attempts = max_retries + 1

\* C4 witness: a step has ended after three time-outs.
C4_Witness ==
    \E r \in AllRuns :
        /\ AllGenericFailures(r)
        /\ Len(last_step[r].errors) = 3
        /\ last_step[r].ret.attempts = 3
        /\ last_step[r].ret.error = PrefixFailed \o Timeout.msg

\* C5: run() never raises to its caller, and the answer it returns is a
\* non-empty string.
C5_RunReturnsAnswer ==
    \A r \in AllRuns :
        /\ pc[r] # "Raised"
        /\ pc[r] = "Done" => answer[r] # None /\ answer[r] # <<>>

\* Whether text occurs in the variable parts of the aggregation prompt p.
InPrompt(p, text) ==
    \/ Contains(p.question, text)
    \/ Contains(p.policy_info, text)
    \/ Contains(p.data_info, text)
    \/ Contains(p.other_info, text)

\* C7: the record of every step that ended in failure is part of the
\* aggregation prompt of its run: the prompt carries the step's error.
C7_FailureRecordInPrompt ==
    \A r \in AllRuns :
        pc[r] = "Done" =>
            \A i \in 1..Len(execution_results[r]) :
                ~execution_results[r][i].success =>
                    InPrompt(prompt[r], execution_results[r][i].error)

\* The steps among results that are successful employee lookups whose output
\* has a line with the number label.
ResolvingLookups(results) ==
    {i \in 1..Len(results) :
        /\ results[i].success
        /\ results[i].tool_name = "query_employee_info"
        /\ FirstLineWith(SplitLines(Str(results[i].result)), IdLabel) # 0}

\* The number such an output gives: the first token after the label.
ResolvedId(text) ==
    FirstToken(AfterLabel(SplitLines(text)[FirstLineWith(SplitLines(text), IdLabel)],
                          IdLabel))

\* The number as the agent passes it on: upper-cased when it is the letter E
\* or e followed by digits.
Canonical(id) ==
    IF StartsWith(Upper(id), <<"E">>) /\ IsDigit(SubSeq(id, 2, Len(id)))
    THEN Upper(id) ELSE id

\* The last call of run r is a reimbursement query whose step has no employee_id
\* or an empty one, made after a resolving lookup.
FilledCall(r) ==
    /\ last_call[r].made
    /\ last_call[r].tool_name \in ReimbursementTools
    /\ ~Truthy(Get(last_call[r].step_arguments, "employee_id"))
    /\ ResolvingLookups(last_call[r].results_before) # {}

\* C8 as stated: such a call is made with employee_id equal to the number
\* resolved by every lookup that preceded it.
C8_FilledFromEveryLookup ==
    \A r \in AllRuns :
        FilledCall(r) =>
            \A i \in ResolvingLookups(last_call[r].results_before) :
                Get(last_call[r].call_args, "employee_id")
                    = ResolvedId(Str(last_call[r].results_before[i].result))

\* The last of the resolving lookups before the last call of run r.
LastLookup(r) ==
    CHOOSE i \in ResolvingLookups(last_call[r].results_before) :
        \A j \in ResolvingLookups(last_call[r].results_before) : j <= i

\* C8 as amended: such a call is made with employee_id equal to the number
\* resolved by the most recent of those lookups, upper-cased when it is E or e
\* followed by digits.
C8_FilledFromLastLookup ==
    \A r \in AllRuns :
        FilledCall(r) =>
            Get(last_call[r].call_args, "employee_id")
                = Canonical(ResolvedId(Str(last_call[r].results_before[LastLookup(r)].result)))

\* C8 witness: a records query with an empty employee_id, after two lookups that
\* resolved different numbers, is called with the second one's.
C8_Witness ==
    \E r \in AllRuns :
        /\ FilledCall(r)
        /\ \E i \in ResolvingLookups(last_call[r].results_before) :
              /\ i < LastLookup(r)
              /\ ResolvedId(Str(last_call[r].results_before[i].result)) = E001
        /\ Get(last_call[r].call_args, "employee_id") = E002

\* C9: with two runs interleaved, a step of a run reads a context only that run
\* has written, and each run's context is empty when its first step starts.
C9_OwnContext ==
    \A r \in AllRuns :
        /\ read_from[r] \subseteq {r}
        /\ (pc[r] = "StepExecution" /\ idx[r] = 1 /\ attempts[r] = 0 /\ errors[r] = <<>>)
              => ctx[ContextOf(r)] = <<>>

\* C9 witness: both runs are between their steps, each has resolved a different
\* employee number into its context, and each has read its own context only.
C9_Witness ==
    /\ scenario = "interleaved"
    /\ \A r \in AllRuns : pc[r] = "StepExecution" /\ idx[r] = 2 /\ read_from[r] = {r}
    /\ Get(ctx[ContextOf(1)], "employee_id") = E001
    /\ Get(ctx[ContextOf(2)], "employee_id") = <<"e", "0", "0", "2">>

----------------------------------------------------------------------------
(* Specification SpecRetrieve: retrieve on drawn inputs                    *)

\* The chunk texts of the index: one that has the query's words, one that has not.
TextTravel == <<"u5DEE", "u65C5", "f", "e", "e", "u5DEE", "u65C5">>

TextOther == <<"x">>

\* A source as indexer.query returns it.
Source(text, score) ==
    [text |-> text, score |-> score, keyword_score |-> 0, combined_score |-> 0]

SourcePool ==
    {Source(t, sc) : t \in {TextTravel, TextOther}, sc \in {NoScore, 4500, 8000}}

\* A short query, one of twelve characters, and one of more than fifty
\* characters without a word in it.
QueryPool ==
    { <<"u5DEE", "u65C5">>,
      <<"u5DEE", "u65C5", " ", "F", "e", "e", " ", "2", "0", "2", "4", "?">>,
      [i \in 1..51 |-> "7"] }

\* The largest top_k asked for, and the longest answer of the index.
MaxTopK == 2

MaxCandidates == 4

\* The retriever of the index returns at most similarity_top_k nodes.
CandidateLists(top_k, hybrid) ==
    UNION { [1..n -> SourcePool] :
              n \in 0..Smaller(VectorTopK(top_k, hybrid), MaxCandidates) }

InitRetrieve ==
    /\ index_ready \in BOOLEAN
    /\ use_hybrid \in BOOLEAN
    /\ query_in \in QueryPool
    /\ top_k_in \in 1..MaxTopK
    /\ candidates \in CandidateLists(top_k_in, use_hybrid)
    /\ retrieved = <<>>
    /\ rpc = "input"
    /\ scenario = "retrieve"
    /\ clock = [year |-> 2024, month |-> 3]
    /\ ValidatorIdle
    /\ RunsIdle({})
    /\ FixIdle /\ ExtIdle /\ WoIdle /\ DepIdle /\ MoreIdle

\* retrieve(query, top_k) returning
RetrieveReturns ==
    /\ rpc = "input"
    /\ index_ready
    /\ retrieved' = Retrieve(query_in, top_k_in, candidates, use_hybrid)
    /\ rr_reranked' = IF use_hybrid THEN RerankedOf(query_in, top_k_in, candidates)
                      ELSE <<>>
    /\ rr_final' = FinalOf(query_in, top_k_in, candidates, use_hybrid)
    /\ rpc' = "returned"
    /\ UNCHANGED <<parseVars, thrVars, raceVars, index_ready, use_hybrid, query_in, top_k_in, candidates, valVars,
                   scenario, clock, runVars, unitVars>>

\* retrieve(query, top_k) raising ValueError: the index is not ready
RetrieveRaises ==
    /\ rpc = "input"
    /\ ~index_ready
    /\ rpc' = "raised"
    /\ UNCHANGED <<moreVars, index_ready, use_hybrid, query_in, top_k_in, candidates, retrieved,
                   valVars, scenario, clock, runVars, unitVars>>

NextRetrieve == RetrieveReturns \/ RetrieveRaises

SpecRetrieve == InitRetrieve /\ [][NextRetrieve]_vars

\* C10: hybrid retrieve returns at most top_k sources, and at least one when the
\* vector search gave at least one candidate.
C10_BetweenOneAndTopK ==
    (rpc = "returned" /\ use_hybrid) =>
        /\ Len(retrieved) <= top_k_in
        /\ candidates # <<>> => Len(retrieved) >= 1

\* C10 witness: more candidates than top_k, none of which reaches even the
\* relaxed threshold, and top_k sources returned.
C10_Witness ==
    /\ rpc = "returned" /\ use_hybrid
    /\ Len(candidates) > top_k_in
    /\ \A i \in 1..Len(candidates) : candidates[i].score < 5000
    /\ \E i, j \in 1..Len(candidates) : candidates[i].text # candidates[j].text
    /\ Len(retrieved) = top_k_in

\* The candidates whose chunk text is text
WithText(text) == {i \in 1..Len(candidates) : candidates[i].text = text}

\* 0.4 x min(1, keyword score / 10) for the score the keyword search of line
\* 213 gave the chunk, nothing when it did not return the chunk
KeywordPartOf(text) ==
    LET keyword_results == KeywordSearch(query_in, candidates, top_k_in)
        found == {i \in 1..Len(keyword_results) : keyword_results[i].text = text}
    IN  IF found = {} THEN 0 ELSE KeywordPart(keyword_results[CHOOSE i \in found : TRUE])

\* The combined score of a chunk that is one candidate only
CombinedOnce(text) ==
    VectorPart(candidates[CHOOSE i \in WithText(text) : TRUE]) + KeywordPartOf(text)

C30_CombinedScoreInUnit ==
    (/\ rpc = "returned" /\ use_hybrid
     /\ \A i \in 1..Len(candidates) : candidates[i].score \in 0..10000) =>
        \A i \in 1..Len(rr_reranked) : rr_reranked[i].combined_score \in 0..10000

\* C30 with the case of its last clause left out: no two candidates of the
\* same chunk text.
C30_DistinctInUnit ==
    (/\ rpc = "returned" /\ use_hybrid
     /\ \A i \in 1..Len(candidates) : candidates[i].score \in 0..10000
     /\ \A i, j \in 1..Len(candidates) :
           i # j => candidates[i].text # candidates[j].text) =>
        \A i \in 1..Len(rr_reranked) : rr_reranked[i].combined_score \in 0..10000

----------------------------------------------------------------------------
(* Specification SpecParams: validate_and_fix_params on drawn arguments,    *)
(* and once more on what it returned                                       *)

\* The int 20240301
IntDate == <<"int", "2", "0", "2", "4", "0", "3", "0", "1">>

\* "2024/3/5" and "2024" U+5E74 "3" U+6708 "5" U+65E5, which strptime parses
SlashDate == <<"2", "0", "2", "4", "/", "3", "/", "5">>

CjkDate == <<"2", "0", "2", "4", "u5E74", "3", Yue, "5", "u65E5">>

\* "soon", which nothing parses
Soon == <<"s", "o", "o", "n">>

\* The values a key of the arguments may have; Absent: the key is not there.
Absent == <<"absent">>

ParamValues(k) ==
    CASE k = "employee_id" -> {Absent, <<>>, <<" ", "e", "0", "0", "1">>, ZhangSan}
      [] k = "name" -> {Absent, LiSi}
      [] k = "start_date" -> {Absent, SlashDate, CjkDate, MonthPhrase, Soon, IntDate}
      [] k = "end_date" -> {Absent, D0331, IntDate}
      [] k = "assignee_id" -> {Absent, None, ZhangSan, <<"e", "0", "0", "1">>}

ParamKeys == <<"employee_id", "name", "start_date", "end_date", "assignee_id">>

\* The dict that has, in the order of ParamKeys, the keys choice gives a value.
RECURSIVE DictOf(_, _)
DictOf(choice, i) ==
    IF i > Len(ParamKeys) THEN <<>>
    ELSE IF choice[i] = Absent THEN DictOf(choice, i + 1)
    ELSE <<<<ParamKeys[i], choice[i]>>>> \o DictOf(choice, i + 1)

ParamPool ==
    { DictOf(<<a, b, c, d, e>>, 1) :
        a \in ParamValues(ParamKeys[1]), b \in ParamValues(ParamKeys[2]),
        c \in ParamValues(ParamKeys[3]), d \in ParamValues(ParamKeys[4]),
        e \in ParamValues(ParamKeys[5]) }

\* The contexts: empty, as run() has it after a lookup, and with an
\* assignee_id in two spellings.
ContextPool ==
    { <<>>,
      <<<<"employee_id", E002>>, <<"employee_name", LiSi>>>>,
      <<<<"assignee_id", E002>>>>,
      <<<<"employee_id", E002>>, <<"assignee_id", <<"e", "0", "0", "2">>>>>> }

FixToolPool == {"query_employee_info", "query_reimbursement_records",
                "create_work_order", "rag_search"}

InitParams ==
    /\ fix_tool \in FixToolPool
    /\ fix_params \in ParamPool
    /\ fix_context \in ContextPool
    /\ fixed_once = <<>>
    /\ fixed_twice = <<>>
    /\ fpc = "input"
    /\ scenario = "params"
    /\ clock = [year |-> 2024, month |-> 3]
    /\ ValidatorIdle
    /\ RetrieverIdle
    /\ RunsIdle({})
    /\ ExtIdle /\ WoIdle /\ DepIdle /\ MoreIdle

\* fixed = validate_and_fix_params(tool_name, params, context)
FixParams ==
    /\ fpc = "input"
    /\ ~ValidateAndFixParamsRaises(fix_tool, fix_params)
    /\ fixed_once' = ValidateAndFixParams(fix_tool, fix_params, fix_context, clock)
    /\ fpc' = "fixed"
    /\ UNCHANGED <<moreVars, fix_tool, fix_params, fix_context, fixed_twice, valVars, retVars,
                   scenario, clock, runVars, extVars, woVars, depVars>>

\* validate_and_fix_params(tool_name, fixed, context)
FixParamsAgain ==
    /\ fpc = "fixed"
    /\ ~ValidateAndFixParamsRaises(fix_tool, fixed_once)
    /\ fixed_twice' = ValidateAndFixParams(fix_tool, fixed_once, fix_context, clock)
    /\ fpc' = "refixed"
    /\ UNCHANGED <<moreVars, fix_tool, fix_params, fix_context, fixed_once, valVars, retVars,
                   scenario, clock, runVars, extVars, woVars, depVars>>

\* either call raising (the TypeError of _parse_date)
FixParamsRaises ==
    /\ \/ fpc = "input" /\ ValidateAndFixParamsRaises(fix_tool, fix_params)
       \/ fpc = "fixed" /\ ValidateAndFixParamsRaises(fix_tool, fixed_once)
    /\ fpc' = "raised"
    /\ UNCHANGED <<moreVars, fix_tool, fix_params, fix_context, fixed_once, fixed_twice, valVars,
                   retVars, scenario, clock, runVars, extVars, woVars, depVars>>

NextParams == FixParams \/ FixParamsAgain \/ FixParamsRaises

SpecParams == InitParams /\ [][NextParams]_vars

\* C11: the validator applied to its own output, with the same context,
\* returns that output unchanged.
C11_ValidateIdempotent ==
    fpc = "refixed" => DictEq(fixed_twice, fixed_once)

\* C12: validate_and_fix_params never raises, whatever the arguments.
C12_ValidateNeverRaises == fpc # "raised"

----------------------------------------------------------------------------
(* create_work_order_tool (mcp/mcp_tools.py) over the work_orders table     *)
(*                                                                         *)
(* A row is [title, description, assignee_id, priority, category, status,  *)
(* created_at]; created_at counts seconds, the grain of CURRENT_TIMESTAMP. *)

\* The employees table (init_database.py), cut to two rows and two columns.
employees ==
    <<[employee_id |-> E001, name |-> ZhangSan],
      [employee_id |-> E002, name |-> LiSi]>>

\* The two SELECTs of lines 382-387: by upper-cased number when the argument
\* starts with E or e, then by exact name.  The employee_id found, or None.
FindAssignee(assignee_id) ==
    LET byId == IF StartsWith(Upper(assignee_id), <<"E">>)
                THEN {i \in 1..Len(employees) :
                        employees[i].employee_id = Upper(assignee_id)}
                ELSE {}
        byName == {i \in 1..Len(employees) : employees[i].name = assignee_id}
    IN  IF byId # {} THEN employees[CHOOSE i \in byId : TRUE].employee_id
        ELSE IF byName # {} THEN employees[CHOOSE i \in byName : TRUE].employee_id
        ELSE None

\* The rows the SELECT of lines 394-403 matches
MatchingOpen(rows, assignee_id, title) ==
    {i \in 1..Len(rows) :
        /\ rows[i].assignee_id = assignee_id
        /\ rows[i].title = title
        /\ rows[i].status \in {"open", "in_progress"}}

\* ORDER BY created_at DESC, fetchone(): a matching row than which none is
\* newer; which of several rows of the same second is not determined.
Latest(rows, matching) ==
    {i \in matching : \A j \in matching : rows[j].created_at <= rows[i].created_at}

Auto == <<"a", "u", "t", "o">>

CreateNew == <<"c", "r", "e", "a", "t", "e", "_", "n", "e", "w">>

UpdateExisting == <<"u", "p", "d", "a", "t", "e", "_", "e", "x", "i", "s", "t", "i", "n", "g">>

valid_actions == {Auto, CreateNew, UpdateExisting}

\* action = (action or "auto").lower()
ActionOf(action) == Lower(IF Truthy(action) THEN action ELSE Auto)

\* Lines 459-472 with only the branch of "auto".
BlockedOnlyAuto(action, duplicate_reason) ==
    action = Auto /\ ~Truthy(duplicate_reason)

\* Lines 459-472: the two branches that return without inserting
Blocked(action, duplicate_reason) ==
    \/ action = CreateNew /\ ~Truthy(duplicate_reason)
    \/ action = Auto /\ ~Truthy(duplicate_reason)

\* "[DuplicateReason: ...]" and the text after "[... timestamp] " of an update,
\* with their markers cut to one word.
ReasonTag(duplicate_reason) == <<"[", "D", "R", ":", " ">> \o duplicate_reason \o <<"]">>

UpdateTag(duplicate_reason) == <<"[", "U", "]", " ", "R", ":">> \o duplicate_reason

\* Lines 480-489: final_description or None
FinalDescription(description, duplicate_reason) ==
    LET final_description == IF Truthy(description) THEN description ELSE <<>>
        joined == IF Truthy(duplicate_reason)
                  THEN Strip(final_description \o <<"\n">> \o ReasonTag(duplicate_reason))
                  ELSE final_description
    IN  IF joined = <<>> THEN None ELSE joined

\* Lines 433-446: new_description or None
UpdatedDescription(existing, description, duplicate_reason) ==
    LET existing_desc == IF Truthy(existing) THEN existing ELSE <<>>
        new_description ==
            IF Truthy(duplicate_reason)
            THEN Strip(existing_desc \o <<"\n">> \o UpdateTag(duplicate_reason))
            ELSE existing_desc
    IN  IF new_description = <<>> THEN None ELSE new_description

\* The row of the INSERT of lines 492-496
NewRow(title, description, assignee_id, duplicate_reason, at) ==
    [title |-> title, description |-> FinalDescription(description, duplicate_reason),
     assignee_id |-> assignee_id, priority |-> "medium", category |-> None,
     status |-> "open", created_at |-> at]

\* What one call does once the assignee is found: [message, rows], for the
\* row e that fetchone gave (0: none).
AfterAssignee(rows, title, assignee_id, action, duplicate_reason, e, at) ==
    IF action \notin valid_actions
    THEN [message |-> "invalid action", rows |-> rows]
    ELSE IF e # 0 /\ action = UpdateExisting
    THEN [message |-> "updated",
          rows |-> [rows EXCEPT ![e].description =
                        UpdatedDescription(@, None, duplicate_reason)]]
    ELSE IF e # 0 /\ Blocked(action, duplicate_reason)
    THEN [message |-> IF action = CreateNew THEN "exists" ELSE "blocked",
          rows |-> rows]
    ELSE [message |-> "created",
          rows |-> Append(rows, NewRow(title, None, assignee_id, duplicate_reason, at))]

\* The body of the try for a connection that opened: [message, rows].
\* assignee_id.upper() of None is an AttributeError, which the except turns
\* into the message of line 524.
WorkOrderBody(rows, title, assignee_id, action, duplicate_reason, e, at) ==
    IF ~IsStr(assignee_id) THEN [message |-> "failed", rows |-> rows]
    ELSE IF FindAssignee(assignee_id) = None
    THEN [message |-> "no employee", rows |-> rows]
    ELSE AfterAssignee(rows, title, FindAssignee(assignee_id), ActionOf(action),
                       duplicate_reason, e, at)

\* The rows fetchone may give for the call: 0 when nothing matches
ExistingChoices(rows, title, assignee_id) ==
    IF ~IsStr(assignee_id) \/ FindAssignee(assignee_id) = None THEN {0}
    ELSE IF MatchingOpen(rows, FindAssignee(assignee_id), title) = {} THEN {0}
    ELSE Latest(rows, MatchingOpen(rows, FindAssignee(assignee_id), title))

\* The most calls made on one table.
MaxCalls == 2

WoTitles == {Question}

WoAssignees == {<<"e", "0", "0", "1">>, ZhangSan, <<"E", "0", "0", "9">>, None}

WoActions == {<<"A", "U", "T", "O">>, CreateNew, UpdateExisting, <<"d", "e", "l">>}

WoReasons == {None, <<>>, <<"r">>}

OldRow(title, status) ==
    [title |-> title, description |-> None, assignee_id |-> E001,
     priority |-> "medium", category |-> None, status |-> status, created_at |-> 0]

\* The table before the first call: empty, or with one order for Zhang San
\* that is open, in progress or closed, or open under another title.
InitWorkOrders ==
    /\ work_orders \in {<<>>, <<OldRow(Question, "open")>>,
                        <<OldRow(Question, "in_progress")>>,
                        <<OldRow(Question, "closed")>>, <<OldRow(OkText, "open")>>}
    /\ wo_call = NoWorkOrderCall
    /\ scenario = "work_orders"
    /\ clock = [year |-> 2024, month |-> 3]
    /\ ValidatorIdle
    /\ RetrieverIdle
    /\ RunsIdle({})
    /\ FixIdle /\ ExtIdle /\ DepIdle /\ MoreIdle

\* The call has returned res.
WorkOrderReturned(title, assignee_id, action, duplicate_reason, at, res) ==
    /\ work_orders' = res.rows
    /\ wo_call' = [made |-> TRUE, n |-> wo_call.n + 1, at |-> at, title |-> title,
                   assignee_id |-> assignee_id, action |-> action,
                   duplicate_reason |-> duplicate_reason, before |-> work_orders,
                   raised |-> FALSE, message |-> res.message]

\* create_work_order_tool(title, assignee_id, duplicate_reason=..., action=...)
\* in the second at; db says whether get_db_connection finds the database.
CreateWorkOrder ==
    /\ wo_call.n < MaxCalls
    /\ \E title \in WoTitles, assignee_id \in WoAssignees, action \in WoActions,
          duplicate_reason \in WoReasons, at \in {wo_call.at, wo_call.at + 1},
          db \in {"ok", "missing"} :
          \E e \in ExistingChoices(work_orders, title, assignee_id) :
             WorkOrderReturned(title, assignee_id, action, duplicate_reason, at,
                 IF db = "missing" THEN [message |-> "failed", rows |-> work_orders]
                 ELSE WorkOrderBody(work_orders, title, assignee_id, action,
                                    duplicate_reason, e, at))
    /\ UNCHANGED <<moreVars, valVars, retVars, scenario, clock, runVars, fixVars, extVars, depVars>>

NextWorkOrders == CreateWorkOrder

SpecWorkOrders == InitWorkOrders /\ [][NextWorkOrders]_vars

\* The open or in-progress rows of the table before the last call that have
\* the title and the assignee the call names.
OpenBefore ==
    {i \in 1..Len(wo_call.before) :
        /\ wo_call.before[i].title = wo_call.title
        /\ wo_call.before[i].status \in {"open", "in_progress"}
        /\ \E j \in 1..Len(employees) :
              /\ employees[j].employee_id = wo_call.before[i].assignee_id
              /\ wo_call.assignee_id \in
                    {employees[j].name, employees[j].employee_id,
                     Lower(employees[j].employee_id)}}

AutoOrCreateNew ==
    wo_call.action \in {None, Auto, CreateNew, <<"A", "U", "T", "O">>}

\* C13: with an open or in-progress order of the same title and assignee in
\* the table, a call with action auto or create_new and no duplicate_reason
\* returns a message, does not raise and inserts no row; and no call inserts a
\* row that duplicates such an order unless it has a duplicate_reason.
C13_DuplicateNeedsReason ==
    (wo_call.made /\ OpenBefore # {}) =>
        /\ (AutoOrCreateNew /\ ~Truthy(wo_call.duplicate_reason)) =>
              /\ ~wo_call.raised
              /\ wo_call.message # ""
              /\ work_orders = wo_call.before
        /\ Len(work_orders) > Len(wo_call.before) => Truthy(wo_call.duplicate_reason)

\* An order exists, and action create_new without a reason has been refused
\* after an earlier call inserted the order's duplicate with a reason.
C13_Witness ==
    /\ wo_call.made /\ OpenBefore # {}
    /\ wo_call.action = CreateNew
    /\ ~Truthy(wo_call.duplicate_reason)
    /\ work_orders = wo_call.before
    /\ \E i, j \in 1..Len(work_orders) :
          /\ i < j
          /\ work_orders[i].title = work_orders[j].title
          /\ work_orders[i].assignee_id = work_orders[j].assignee_id

----------------------------------------------------------------------------
(* EntityExtractor.extract_employee and extract_all_entities               *)

\* The characters of the texts that are not letters, digits or ideographs.
Punctuation == {" ", "\n", "\t", "-", "/", ":", ".", ",", "@", "[", "]", "(", ")",
                "\\", "uFF1A"}

\* [a-zA-Z]
IsLetter(c) == \E i \in 1..26 : c = LowerAlpha[i] \/ c = UpperAlpha[i]

\* [U+4E00-U+9FA5]: every other token of the texts is an ideograph of the range
IsCjk(c) == ~IsLetter(c) /\ c \notin Digits /\ c \notin Punctuation /\ c # "_"

\* \w of a str pattern
IsWord(c) == IsLetter(c) \/ c \in Digits \/ c = "_" \/ IsCjk(c)

\* The family names of the character class of line 144.
Surnames ==
    {"u5F20", "u674E", "u738B", "u5218", "u9648", "u6768", "u9EC4", "u8D75",
     "u5434", "u5468", "u5F90", "u5B59", "u9A6C", "u6731", "u80E1", "u90ED",
     "u4F55", "u9AD8", "u6797", "u7F57", "u90D1", "u6881", "u8C22", "u5B8B",
     "u5510", "u8BB8", "u97E9", "u51AF", "u9093", "u66F9", "u5F6D", "u66FE",
     "u8096", "u7530", "u8463", "u8881", "u6F58", "u4E8E", "u848B", "u8521",
     "u4F59", "u675C", "u53F6", "u7A0B", "u82CF", "u9B4F", "u5415", "u4E01",
     "u4EFB", "u6C88", "u59DA", "u5362", "u59DC", "u5D14", "u949F", "u8C2D",
     "u9646", "u6C6A", "u8303", "u91D1", "u77F3", "u5ED6", "u8D3E", "u590F",
     "u97E6", "u4ED8", "u65B9", "u767D", "u90B9", "u5B5F", "u718A", "u79E6",
     "u90B1", "u6C5F", "u5C39", "u859B", "u95EB", "u6BB5", "u96F7", "u4FAF",
     "u9F99", "u53F2", "u9676", "u9ECE", "u8D3A", "u987E", "u6BDB", "u90DD",
     "u9F9A", "u90B5", "u4E07", "u94B1", "u4E25", "u8983", "u6B66", "u6234",
     "u83AB", "u5B54", "u5411", "u6C64"}
\* The numerals of the first alternative of line 144.
Numerals ==
    {"u4E00", "u4E8C", "u4E09", "u56DB", "u4E94", "u516D", "u4E03", "u516B",
     "u4E5D", "u5341", "u767E", "u5343", "u4E07", "u4EBF", "u5146", "u96F6",
     "u58F9", "u8D30", "u53C1", "u8086", "u4F0D", "u9646", "u67D2", "u634C",
     "u7396", "u62FE", "u4F70", "u4EDF"}

\* The end of the longest run of characters of a class that starts at i
\* (i - 1 when text[i] is not of the class).
RunEnd(text, i, InClass(_)) ==
    CHOOSE j \in (i - 1)..Len(text) :
        /\ \A k \in i..j : InClass(text[k])
        /\ (j = Len(text) \/ ~InClass(text[j + 1]))

IsDigitChar(c) == c \in Digits

IsNumeral(c) == c \in Numerals

\* \bE\d{3,}\b with re.IGNORECASE matches at i
IdMatchesAt(text, i, e) ==
    /\ text[i] \in {"E", "e"}
    /\ (i = 1 \/ ~IsWord(text[i - 1]))
    /\ e - i >= 3
    /\ (e = Len(text) \/ ~IsWord(text[e + 1]))

\* re.search of it: the leftmost match, or None
IdMatch(text) ==
    LET at == {i \in 1..Len(text) : IdMatchesAt(text, i, RunEnd(text, i + 1, IsDigitChar))}
    IN  IF at = {} THEN None
        ELSE LET i == CHOOSE i \in at : \A j \in at : i <= j
             IN  SubSeq(text, i, RunEnd(text, i + 1, IsDigitChar))

\* The end of the match of the name pattern that starts with the family name
\* at i: numerals, else Latin letters, else up to three ideographs.
NameEnd(text, i) ==
    IF text[i + 1] \in Numerals THEN RunEnd(text, i + 1, IsNumeral)
    ELSE IF IsLetter(text[i + 1]) THEN RunEnd(text, i + 1, IsLetter)
    ELSE IF RunEnd(text, i + 1, IsCjk) > i + 3 THEN i + 3
    ELSE RunEnd(text, i + 1, IsCjk)

\* re.search of the name pattern: the leftmost match, or None
NameMatch(text) ==
    LET at == {i \in 1..(Len(text) - 1) :
                 /\ text[i] \in Surnames
                 /\ (IsLetter(text[i + 1]) \/ IsCjk(text[i + 1]))}
    IN  IF at = {} THEN None
        ELSE LET i == CHOOSE i \in at : \A j \in at : i <= j
             IN  SubSeq(text, i, NameEnd(text, i))

Bu == "u90E8"

\* re.search(r'(.+?)(?:U+90E8|U+90E8 U+95E8)', text): group(1) of the leftmost
\* match, or None.  The dot does not match a line feed.
DepartmentMatch(text) ==
    LET ok(i, j) == /\ i < j
                    /\ text[j] = Bu
                    /\ \A k \in i..(j - 1) : text[k] # "\n"
        at == {i \in 1..Len(text) : \E j \in 1..Len(text) : ok(i, j)}
    IN  IF at = {} THEN None
        ELSE LET i == CHOOSE i \in at : \A k \in at : i <= k
                 j == CHOOSE j \in 1..Len(text) :
                         ok(i, j) /\ \A k \in 1..Len(text) : ok(i, k) => j <= k
             IN  SubSeq(text, i, j - 1)

Wo == "u6211"

\* The name rule without the guard "and not entity.employee_id".
EmployeeFromBoth(id_match, name_match, department_match) ==
    [employee_id |-> IF id_match # None THEN Upper(id_match) ELSE None,
     name |-> IF name_match # None
                 /\ 2 <= Len(name_match) /\ Len(name_match) <= 4
              THEN name_match ELSE None,
     department |-> IF department_match # None THEN department_match \o <<Bu>>
                    ELSE None]

\* Lines 138-156, for the three matches
EmployeeFrom(id_match, name_match, department_match) ==
    [employee_id |-> IF id_match # None THEN Upper(id_match) ELSE None,
     name |-> IF name_match # None /\ id_match = None
                 /\ 2 <= Len(name_match) /\ Len(name_match) <= 4
              THEN name_match ELSE None,
     department |-> IF department_match # None THEN department_match \o <<Bu>>
                    ELSE None]

\* extract_employee(text), self.user_context being uc
ExtractEmployee(text, uc) ==
    IF Contains(text, <<Wo>>) /\ Has(uc, "current_user")
    THEN At(uc, "current_user")
    ELSE EmployeeFrom(IdMatch(text), NameMatch(text), DepartmentMatch(text))

\* extract_all_entities(text)
ExtractAllEntities(text, uc, now) ==
    [employee |-> ExtractEmployee(text, uc), date_range |-> ExtractDateRange(text, now)]

----------------------------------------------------------------------------
(* Specification SpecExtract: extract_all_entities on drawn texts           *)

\* "N" U+6708 U+4EFD for the month number n
MonthText(n) == IntToStr(n) \o <<Yue, "u4EFD">>

\* The employee numbers and what they stand next to: alone, in lower case,
\* with more digits, with too few, after a name with and without a space,
\* before a department, and after U+6211.
IdTexts ==
    { E001,
      <<"e", "0", "0", "1">>,
      <<"e", "1", "2", "3", "4", "5">>,
      <<"E", "1", "2">>,
      ZhangSan,
      ZhangSan \o <<" ">> \o E001,
      ZhangSan \o E001,
      E001 \o <<" ">> \o LiSi \o <<"u8D22", "u52A1", Bu>>,
      <<Wo, " ">> \o E001,
      <<"u738B", "u4E94", "u516D", "u4E03", "u516B">> }

TextPool == {MonthText(n) : n \in 1..12} \cup IdTexts

\* The years datetime.now() is drawn from: leap, not leap, and the two kinds
\* of century.
YearPool == {2023, 2024, 2000, 2100}

CurrentUser ==
    [name |-> LiSi, employee_id |-> E002, department |-> <<"u8D22", "u52A1", Bu>>]

InitExtract ==
    /\ text_in \in TextPool
    /\ user_context \in {<<>>, <<<<"current_user", CurrentUser>>>>}
    /\ entities_out = NoEntities
    /\ epc = "input"
    /\ scenario = "extract"
    /\ clock \in [year : YearPool, month : {1, 3, 12}]
    /\ ValidatorIdle
    /\ RetrieverIdle
    /\ RunsIdle({})
    /\ FixIdle /\ WoIdle /\ DepIdle /\ MoreIdle

\* entities = extract_all_entities(text)
ExtractEntities ==
    /\ epc = "input"
    /\ entities_out' = ExtractAllEntities(text_in, user_context, clock)
    /\ epc' = "extracted"
    /\ UNCHANGED <<moreVars, text_in, user_context, valVars, retVars, scenario, clock, runVars,
                   fixVars, woVars, depVars>>

NextExtract == ExtractEntities

SpecExtract == InitExtract /\ [][NextExtract]_vars

\* The number of days of each month of a year that is not a leap year.
MonthLengths == <<31, 28, 31, 30, 31, 30, 31, 31, 30, 31, 30, 31>>

LastDay(y, m) ==
    IF m = 2 /\ ((y % 4 = 0 /\ y % 100 # 0) \/ y % 400 = 0) THEN 29
    ELSE MonthLengths[m]

\* C14: for the text "N" U+6708 U+4EFD with N in 1..12 and the current year Y,
\* extract_date_range gives start_date Y-NN-01, end_date the last calendar day
\* of month N of Y, month N and year Y.
C14_MonthRangeExact ==
    \A n \in 1..12 :
        (epc = "extracted" /\ text_in = MonthText(n)) =>
            /\ entities_out.date_range.start_date =
                  IntToStr(clock.year) \o <<"-">> \o Pad2(n) \o <<"-", "0", "1">>
            /\ entities_out.date_range.end_date =
                  IntToStr(clock.year) \o <<"-">> \o Pad2(n) \o <<"-">>
                      \o IntToStr(LastDay(clock.year, n))
            /\ entities_out.date_range.month = n
            /\ entities_out.date_range.year = clock.year

\* February of a leap year has been extracted.
C14_Witness ==
    /\ epc = "extracted"
    /\ text_in = MonthText(2)
    /\ clock.year = 2024
    /\ entities_out.date_range.end_date =
          <<"2", "0", "2", "4", "-", "0", "2", "-", "2", "9">>

\* The text is E or e followed by three or more digits.
IsIdLike(text) ==
    /\ Len(text) >= 4
    /\ text[1] \in {"E", "e"}
    /\ \A i \in 2..Len(text) : text[i] \in Digits

\* C15: for a text that is an employee number (E or e and three or more
\* digits), extract_employee returns it upper-cased as employee_id and leaves
\* name unset; and whenever the result has an employee_id matched in the text,
\* it has no name taken from the text.
C15_IdSuppressesName ==
    epc = "extracted" =>
        /\ IsIdLike(text_in) =>
              /\ entities_out.employee.employee_id = Upper(text_in)
              /\ entities_out.employee.name = None
        /\ (entities_out.employee.employee_id # None
              /\ ~(Contains(text_in, <<Wo>>) /\ Has(user_context, "current_user"))) =>
              entities_out.employee.name = None

\* A number has been matched in a text that also holds a name.
C15_Witness ==
    /\ epc = "extracted"
    /\ text_in = ZhangSan \o <<" ">> \o E001
    /\ entities_out.employee.employee_id = E001
    /\ entities_out.employee.name = None

----------------------------------------------------------------------------
(* _resolve_dependencies: the recursion of _resolve, one call or return a   *)
(* step.  A frame is [tool, i]: the call _resolve(tool), its loop at        *)
(* tool_deps[i].                                                           *)

\* self.tool_dependencies.get(tool, []) for the map m
DepsIn(m, tool) == IF tool \in DOMAIN m THEN m[tool] ELSE <<>>

\* The test of line 517 always false.
VisitedNever(tool, seen) == FALSE

\* tool in visited (line 517)
Visited(tool, seen) == tool \in seen

\* if x not in resolved: resolved.append(x)
AppendNew(done, x) ==
    IF \E k \in 1..Len(done) : done[k] = x THEN done ELSE Append(done, x)

\* The deeper the recursion is followed.
MaxDepth == 4

\* The list the innermost loop in progress runs over, and its position.
LoopList == IF frames = <<>> THEN DepsIn(dep_map, requested)
            ELSE DepsIn(dep_map, frames[Len(frames)].tool)

LoopAt == IF frames = <<>> THEN outer_i ELSE frames[Len(frames)].i

\* The loop in progress moves to its next element, the call _resolve(dep)
\* having returned with the list done: the loop of _resolve appends dep
\* (lines 524-525), the outer loop does not.
LoopOn(dep, done) ==
    IF frames = <<>>
    THEN /\ outer_i' = outer_i + 1
         /\ resolved' = done
         /\ UNCHANGED frames
    ELSE /\ frames' = [frames EXCEPT ![Len(frames)].i = @ + 1]
         /\ resolved' = AppendNew(done, dep)
         /\ UNCHANGED outer_i

DepTools == {"query_employee_info", "create_work_order", "send_email"}

\* The lists of up to two different tools
DepLists ==
    {<<>>} \cup {<<t>> : t \in DepTools}
           \cup {q \in {<<t, u>> : t \in DepTools, u \in DepTools} : q[1] # q[2]}

\* Every dependency map with entries for two of the three tools, cyclic ones
\* and self-dependencies among them.
InitResolve ==
    /\ dep_map \in [{"create_work_order", "send_email"} -> DepLists]
    /\ requested \in DepTools
    /\ frames = <<>>
    /\ outer_i = 0
    /\ visited = {}
    /\ resolved = <<>>
    /\ dpc = "input"
    /\ scenario = "resolve"
    /\ clock = [year |-> 2024, month |-> 3]
    /\ ValidatorIdle
    /\ RetrieverIdle
    /\ RunsIdle({})
    /\ FixIdle /\ ExtIdle /\ WoIdle /\ MoreIdle

\* Lines 512-514: deps, resolved = [], visited = set()
ResolveBegin ==
    /\ dpc = "input"
    /\ dpc' = "resolving"
    /\ outer_i' = 1
    /\ UNCHANGED <<moreVars, dep_map, requested, frames, visited, resolved, valVars, retVars,
                   scenario, clock, runVars, fixVars, extVars, woVars>>

\* The loop in progress calls _resolve(dep): a tool already visited returns at
\* once (lines 517-518), another is marked and its own loop starts.
ResolveCall ==
    /\ dpc = "resolving"
    /\ LoopAt <= Len(LoopList)
    /\ IF Visited(LoopList[LoopAt], visited)
       THEN /\ LoopOn(LoopList[LoopAt], resolved)
            /\ UNCHANGED visited
       ELSE /\ Len(frames) < MaxDepth
            /\ visited' = visited \cup {LoopList[LoopAt]}
            /\ frames' = Append(frames, [tool |-> LoopList[LoopAt], i |-> 1])
            /\ UNCHANGED <<moreVars, outer_i, resolved>>
    /\ UNCHANGED <<moreVars, dep_map, requested, dpc, valVars, retVars, scenario, clock, runVars,
                   fixVars, extVars, woVars>>

\* The loop of the innermost _resolve(tool) is over: tool is appended (lines
\* 527-528), the call returns and the caller's loop goes on.
ResolveReturn ==
    /\ dpc = "resolving"
    /\ frames # <<>>
    /\ LoopAt > Len(LoopList)
    /\ LET tool == frames[Len(frames)].tool
           callers == SubSeq(frames, 1, Len(frames) - 1)
       IN  IF callers = <<>>
           THEN /\ frames' = <<>>
                /\ outer_i' = outer_i + 1
                /\ resolved' = AppendNew(resolved, tool)
           ELSE /\ frames' = [callers EXCEPT ![Len(callers)].i = @ + 1]
                /\ resolved' = AppendNew(AppendNew(resolved, tool), tool)
                /\ UNCHANGED outer_i
    /\ UNCHANGED <<moreVars, dep_map, requested, visited, dpc, valVars, retVars, scenario, clock,
                   runVars, fixVars, extVars, woVars>>

\* return resolved
ResolveFinish ==
    /\ dpc = "resolving"
    /\ frames = <<>>
    /\ outer_i > Len(DepsIn(dep_map, requested))
    /\ dpc' = "returned"
    /\ UNCHANGED <<moreVars, dep_map, requested, frames, outer_i, visited, resolved, valVars,
                   retVars, scenario, clock, runVars, fixVars, extVars, woVars>>

NextResolve == ResolveBegin \/ ResolveCall \/ ResolveReturn \/ ResolveFinish

SpecResolve == InitResolve /\ [][NextResolve]_vars

\* The interpreter runs the call on: a step that can be taken is taken.
SpecResolveLive == SpecResolve /\ WF_vars(NextResolve)

\* C16: _resolve_dependencies returns, for every requested tool and every
\* dependency map, cyclic or not.
C16_ResolveTerminates == <>(dpc = "returned")

\* The call has returned for a map in which the requested tool depends on a
\* tool that depends on itself and on the requested tool.
C16_Witness ==
    /\ dpc = "returned"
    /\ requested = "create_work_order"
    /\ dep_map["create_work_order"] = <<"send_email">>
    /\ dep_map["send_email"] = <<"send_email", "create_work_order">>
    /\ resolved = <<"send_email", "create_work_order">>

----------------------------------------------------------------------------
(* run(): the order of the stages                                          *)

\* The stages of run() in the order of its statements (lines 775-832):
\* _understand_intent, _generate_plan up to the parsed plan, the validation of
\* the plan, the loop over the steps, _aggregate_results, the return.
StageOrder ==
    <<"IntentClassification", "PlanGeneration", "PlanValidation", "StepExecution",
      "ResultAggregation", "Done">>

\* The except branch of _generate_plan is part of the plan generation.
StageOf(at) == IF at = "PlanFallback" THEN "PlanGeneration" ELSE at

\* to follows from in the order of the stages
NextStage(from, to) ==
    \E i \in 1..(Len(StageOrder) - 1) : StageOrder[i] = from /\ StageOrder[i + 1] = to

\* C17: a run() leaves a stage only for the stage that follows it in the order
\* IntentClassification, PlanGeneration, PlanValidation, StepExecution,
\* ResultAggregation, Done: it skips none, repeats none, and ends in no state
\* but Done.  A loop over no steps counts as passed.
C17_StagesInOrder ==
    [][\A r \in AllRuns :
          StageOf(pc'[r]) # StageOf(pc[r]) =>
              \/ NextStage(StageOf(pc[r]), StageOf(pc'[r]))
              \/ /\ pc[r] = "PlanValidation"
                 /\ pc'[r] = "ResultAggregation"
                 /\ plans'[r].kind # "null"
                 /\ StepsToRun(plans'[r]) = <<>>]_vars

----------------------------------------------------------------------------
(* run(): the loop over the steps                                          *)

\* min(n, max_steps) for a plan of n steps
StepsDue(r) ==
    IF Len(plans[r].steps) < max_steps THEN Len(plans[r].steps) ELSE max_steps

\* The i-th record of the run is the record of the i-th step of its plan.
RecordOfStep(r, i) ==
    /\ execution_results[r][i].step_id = plans[r].steps[i].step_id
    /\ execution_results[r][i].step_id = i
    /\ execution_results[r][i].tool_name = plans[r].steps[i].tool_name
    /\ execution_results[r][i].arguments = plans[r].steps[i].arguments

\* C18: run() executes the first min(n, max_steps) steps of its plan of n
\* steps, in plan order and one at a time: while the loop runs, the step in
\* hand is the one after the steps recorded, whether these failed or not; when
\* the loop is over there are min(n, max_steps) records; and the i-th record
\* is that of the i-th step.
C18_FirstStepsInOrder ==
    \A r \in AllRuns :
        pc[r] \in {"StepExecution", "ResultAggregation", "Done"} =>
            /\ Len(execution_results[r]) <= StepsDue(r)
            /\ pc[r] = "StepExecution" =>
                  /\ idx[r] = Len(execution_results[r]) + 1
                  /\ idx[r] <= StepsDue(r)
            /\ pc[r] # "StepExecution" => Len(execution_results[r]) = StepsDue(r)
            /\ \A i \in 1..Len(execution_results[r]) : RecordOfStep(r, i)

\* A run of a plan of max_steps + 1 steps has returned max_steps records; the
\* employee lookup failed, the step after it failed, and a later step succeeded.
C18_Witness ==
    /\ pc[1] = "Done"
    /\ Len(plans[1].steps) = max_steps + 1
    /\ Len(execution_results[1]) = max_steps
    /\ execution_results[1][1].tool_name = "query_employee_info"
    /\ ~execution_results[1][1].success
    /\ ~execution_results[1][2].success
    /\ execution_results[1][max_steps].success

----------------------------------------------------------------------------
(* _execute_step_with_retry: the parameter patch                           *)

\* The step of run r in hand has just been attempted and the attempt failed.
AttemptFailed(r) ==
    /\ pc[r] = "StepExecution"
    /\ \/ Len(errors'[r]) = Len(errors[r]) + 1
       \/ /\ Len(execution_results'[r]) = Len(execution_results[r]) + 1
          /\ Len(last_step'[r].errors) = Len(errors[r]) + 1

\* The error of that attempt
AttemptError(r) ==
    IF Len(errors'[r]) = Len(errors[r]) + 1
    THEN errors'[r][Len(errors'[r])]
    ELSE last_step'[r].errors[Len(last_step'[r].errors)]

\* The value the patch leaves under the i-th key of the arguments before,
\* given the context: an empty employee_id or assignee_id takes the
\* context's employee_id.
PatchedValue(before, i, context) ==
    IF /\ before[i][1] \in {"employee_id", "assignee_id"}
       /\ ~Truthy(before[i][2])
       /\ Has(context, "employee_id")
    THEN At(context, "employee_id")
    ELSE before[i][2]

\* after is what the patch makes of before
Patched(before, after, context) ==
    /\ Len(after) = Len(before)
    /\ \A i \in 1..Len(before) :
          after[i] = <<before[i][1], PatchedValue(before, i, context)>>

\* C19: when an attempt of a step fails with an error that holds the marker
\* of a parameter error or the word "missing", and fewer than max_retries
\* attempts had failed before it, the arguments of the step are patched from
\* the context and the same step is attempted again; a step is never attempted
\* more than max_retries + 1 times.
C19_PatchedAndRetried ==
    [][\A r \in AllRuns :
          /\ attempts'[r] <= max_retries
          /\ last_step'[r].ret.attempts <= max_retries + 1
          /\ (AttemptFailed(r) /\ ParamShaped(AttemptError(r))
                 /\ attempts[r] < max_retries) =>
                /\ pc'[r] = "StepExecution"
                /\ idx'[r] = idx[r]
                /\ attempts'[r] = attempts[r] + 1
                /\ execution_results'[r] = execution_results[r]
                /\ Patched(plans[r].steps[idx[r]].arguments,
                           plans'[r].steps[idx[r]].arguments,
                           ctx'[ContextOf(r)])]_vars

\* A query called with an empty employee_id failed on a file whose name holds
\* "missing"; its employee_id is now the context's, and it is about to be
\* attempted again.
C19_Witness ==
    /\ pc[1] = "StepExecution"
    /\ attempts[1] = 1
    /\ errors[1] # <<>>
    /\ ParamShaped(errors[1][1])
    /\ last_call[1].made
    /\ last_call[1].tool_name = "query_reimbursement_records"
    /\ plans[1].steps[idx[1]].tool_name = "query_reimbursement_records"
    /\ At(last_call[1].step_arguments, "employee_id") = <<>>
    /\ Has(ctx[1], "employee_id")
    /\ At(plans[1].steps[idx[1]].arguments, "employee_id") = At(ctx[1], "employee_id")
    /\ Truthy(At(ctx[1], "employee_id"))

\* The context run r executes its steps on is not what it was.
ContextChanged(r) == ctx'[ContextOf(r)] # ctx[ContextOf(r)]

\* C26: an attempt of a step that fails leaves the execution context as it
\* was, and the context is written by nothing but an attempt of a
\* query_employee_info step that succeeds.
C26_FailedAttemptKeepsContext ==
    [][\A r \in AllRuns :
          /\ AttemptFailed(r) => ~ContextChanged(r)
          /\ ContextChanged(r) =>
                /\ pc[r] = "StepExecution"
                /\ plans[r].steps[idx[r]].tool_name = "query_employee_info"
                /\ ~AttemptFailed(r)]_vars

\* C26 for every attempt but those of a query_employee_info step: the
\* context stays as it was, whether the attempt fails or not.
C26_OtherToolsKeepContext ==
    [][\A r \in AllRuns :
          ContextChanged(r) =>
              /\ pc[r] = "StepExecution"
              /\ plans[r].steps[idx[r]].tool_name = "query_employee_info"]_vars

\* Run r has just made an attempt of the step in hand.
AttemptMade(r) ==
    /\ pc[r] = "StepExecution"
    /\ \/ attempts'[r] = attempts[r] + 1
       \/ Len(execution_results'[r]) = Len(execution_results[r]) + 1

\* The tool callable returned in that attempt, without raising.
ToolReturned(r) == last_call'[r].did.kind = "return"

\* The step was recorded by that attempt, as successful, with result
StepRecordedWith(r, result) ==
    /\ Len(execution_results'[r]) = Len(execution_results[r]) + 1
    /\ execution_results'[r][Len(execution_results'[r])].success
    /\ execution_results'[r][Len(execution_results'[r])].result = result
    /\ idx'[r] = idx[r] + 1

\* C28: an attempt of a step is a success exactly when the tool callable
\* returned without raising, and then, whatever the value returned, the step
\* is recorded with success true and that value as its result, and is not
\* attempted again.
C28_SuccessIffReturned ==
    [][\A r \in AllRuns :
          AttemptMade(r) =>
              /\ ToolReturned(r) <=> ~AttemptFailed(r)
              /\ ToolReturned(r) => StepRecordedWith(r, last_call'[r].did.text)]_vars

\* C28 for every tool but query_employee_info, whose result the agent reads
\* after the callable has returned (lines 593-606).
C28_OtherToolsSuccessIffReturned ==
    [][\A r \in AllRuns :
          (AttemptMade(r) /\ plans[r].steps[idx[r]].tool_name # "query_employee_info") =>
              /\ ToolReturned(r) <=> ~AttemptFailed(r)
              /\ ToolReturned(r) => StepRecordedWith(r, last_call'[r].did.text)]_vars

\* The same for the texts query_employee_info returns in which the label of
\* the employee number, when there is one, is followed by a number.
C28_ReadableLookupsSucceed ==
    [][\A r \in AllRuns :
          (AttemptMade(r) /\ last_call'[r].did # Returns(FoundBlankId)) =>
              /\ ToolReturned(r) <=> ~AttemptFailed(r)
              /\ ToolReturned(r) => StepRecordedWith(r, last_call'[r].did.text)]_vars

----------------------------------------------------------------------------
(* _validate_and_fix_plan: the lookup it creates                           *)

\* The entities of the intent name an employee and give no ID.
NameWithoutId(intent) ==
    /\ intent.entities_kind = "dict"
    /\ Truthy(Get(intent.entities, "employee_name"))
    /\ ~Truthy(Get(intent.entities, "employee_id"))

\* query_employee_info is among the dependencies of the tool.
DependsOnLookup(tool_name) ==
    \E d \in 1..Len(DepsOf(tool_name)) : DepsOf(tool_name)[d] = "query_employee_info"

\* No query_employee_info step was in the output when the validator came to
\* the step now at position j: every such step before j is one the validator
\* created for that step.
NoLookupSoFar(steps, j) ==
    \A i \in 1..(j - 1) :
        steps[i].tool_name = "query_employee_info" =>
            i = j - 1 /\ steps[i].origin = 0

\* C20: in the plan _validate_and_fix_plan returns for an intent that names an
\* employee and gives no ID, a step whose tool depends on query_employee_info
\* and that no query_employee_info step of the plan precedes has immediately
\* before it a query_employee_info step with the arguments {name: that name}.
C20_LookupPlacedBefore ==
    (vpc = "validated" /\ plan_out.kind = "list" /\ NameWithoutId(intent_in)) =>
        \A j \in 1..Len(plan_out.steps) :
            (/\ DependsOnLookup(plan_out.steps[j].tool_name)
             /\ NoLookupSoFar(plan_out.steps, j)) =>
                /\ j > 1
                /\ plan_out.steps[j - 1] =
                       [step_id   |-> j - 1,
                        tool_name |-> "query_employee_info",
                        arguments |-> <<<<"name",
                                          Get(intent_in.entities, "employee_name")>>>>,
                        origin    |-> 0]

\* The plan was a search and a summary query, the intent names Zhang San
\* without an ID: the plan returned has the lookup of Zhang San between them.
C20_Witness ==
    /\ vpc = "validated"
    /\ NameWithoutId(intent_in)
    /\ Len(plan_in.steps) = 2
    /\ plan_in.steps[1].tool_name = "rag_search"
    /\ plan_in.steps[2].tool_name = "query_reimbursement_summary"
    /\ Len(plan_out.steps) = 3
    /\ plan_out.steps[1].origin = 1
    /\ plan_out.steps[2].tool_name = "query_employee_info"
    /\ plan_out.steps[2].arguments = <<<<"name", ZhangSan>>>>
    /\ plan_out.steps[2].origin = 0
    /\ plan_out.steps[3].origin = 2

----------------------------------------------------------------------------
(* _validate_and_fix_plan: the plan it returns                             *)

\* The step at position o of the input is among the steps of the output.
KeptFrom(o) == \E i \in 1..Len(plan_out.steps) : plan_out.steps[i].origin = o

\* C21: the plan _validate_and_fix_plan returns is well formed: every step of
\* it names a registered tool, no step of the input with a missing or unknown
\* tool name is in it, and its step_id values are 1, 2, ..., n in list order.
C21_PlanWellFormed ==
    (vpc = "validated" /\ plan_out.kind = "list") =>
        /\ \A i \in 1..Len(plan_out.steps) :
              /\ plan_out.steps[i].tool_name \in tool_map
              /\ plan_out.steps[i].step_id = i
        /\ \A o \in 1..Len(plan_in.steps) :
              plan_in.steps[o].tool_name \notin tool_map => ~KeptFrom(o)

\* The input was a step without a tool name, a step of an unknown tool and a
\* summary query, all with step_id 7, for an intent naming an employee: the
\* output is the lookup and the query, numbered 1 and 2.
C21_Witness ==
    /\ vpc = "validated"
    /\ Len(plan_in.steps) = 3
    /\ plan_in.steps[1].tool_name = ""
    /\ plan_in.steps[2].tool_name = "generate_email"
    /\ plan_in.steps[3].tool_name = "query_reimbursement_summary"
    /\ plan_in.steps[3].step_id = 7
    /\ Len(plan_out.steps) = 2
    /\ plan_out.steps[1].origin = 0
    /\ plan_out.steps[2].origin = 3
    /\ plan_out.steps[2].step_id = 2

\* Steps i and j of the validated plan call the same tool with equal arguments.
SameValidatedCall(i, j) ==
    /\ plan_out.steps[i].tool_name = plan_out.steps[j].tool_name
    /\ DictEq(plan_out.steps[i].arguments, plan_out.steps[j].arguments)

\* C27: the validated plan has no two steps with the same tool_name and equal
\* arguments, the steps the validator created counted with the steps it kept.
C27_NoTwoEqualSteps ==
    vpc = "validated" =>
        \A i, j \in 1..Len(plan_out.steps) : i # j => ~SameValidatedCall(i, j)

\* C27 among the steps kept from the input only.
C27_NoTwoEqualKeptSteps ==
    vpc = "validated" =>
        \A i, j \in 1..Len(plan_out.steps) :
            (i # j /\ plan_out.steps[i].origin # 0 /\ plan_out.steps[j].origin # 0)
                => ~SameValidatedCall(i, j)

----------------------------------------------------------------------------
(* _understand_intent and _generate_plan on the response of the LLM        *)

K_intent_type == <<"i", "n", "t", "e", "n", "t", "_", "t", "y", "p", "e">>

K_requires_policy ==
    <<"r", "e", "q", "u", "i", "r", "e", "s", "_", "p", "o", "l", "i", "c",
      "y">>

K_requires_data ==
    <<"r", "e", "q", "u", "i", "r", "e", "s", "_", "d", "a", "t", "a">>

K_requires_generation ==
    <<"r", "e", "q", "u", "i", "r", "e", "s", "_", "g", "e", "n", "e", "r",
      "a", "t", "i", "o", "n">>

K_entities == <<"e", "n", "t", "i", "t", "i", "e", "s">>

K_estimated_steps ==
    <<"e", "s", "t", "i", "m", "a", "t", "e", "d", "_", "s", "t", "e", "p",
      "s">>

K_steps == <<"s", "t", "e", "p", "s">>

K_tool_name == <<"t", "o", "o", "l", "_", "n", "a", "m", "e">>

K_arguments == <<"a", "r", "g", "u", "m", "e", "n", "t", "s">>

K_step_id == <<"s", "t", "e", "p", "_", "i", "d">>

K_query == <<"q", "u", "e", "r", "y">>

K_name == <<"n", "a", "m", "e">>

K_rag_search == <<"r", "a", "g", "_", "s", "e", "a", "r", "c", "h">>

K_query_employee_info ==
    <<"q", "u", "e", "r", "y", "_", "e", "m", "p", "l", "o", "y", "e", "e",
      "_", "i", "n", "f", "o">>

SimpleQuery == <<"s", "i", "m", "p", "l", "e", "_", "q", "u", "e", "r", "y">>

\* an intent naming Zhang San
BodyIntent ==
    <<"{", Quote, "i", "n", "t", "e", "n", "t", "_", "t", "y", "p", "e",
      Quote, ":", " ", Quote, "s", "i", "m", "p", "l", "e", "_", "q", "u",
      "e", "r", "y", Quote, ",", " ", Quote, "e", "n", "t", "i", "t", "i",
      "e", "s", Quote, ":", " ", "{", Quote, "e", "m", "p", "l", "o", "y",
      "e", "e", "_", "n", "a", "m", "e", Quote, ":", " ", Quote, "u5F20",
      "u4E09", Quote, "}", "}">>

\* a plan of one search
BodyPlan ==
    <<"{", Quote, "s", "t", "e", "p", "s", Quote, ":", " ", "[", "{",
      Quote, "s", "t", "e", "p", "_", "i", "d", Quote, ":", " ", "3", ",",
      " ", Quote, "t", "o", "o", "l", "_", "n", "a", "m", "e", Quote, ":",
      " ", Quote, "r", "a", "g", "_", "s", "e", "a", "r", "c", "h", Quote,
      ",", " ", Quote, "a", "r", "g", "u", "m", "e", "n", "t", "s", Quote,
      ":", " ", "{", Quote, "q", "u", "e", "r", "y", Quote, ":", " ",
      Quote, "u5DEE", "u65C5", "u8D39", Quote, "}", "}", "]", "}">>

\* a plan of the same lookup twice
BodyLookups ==
    <<"{", Quote, "s", "t", "e", "p", "s", Quote, ":", "[", "{", Quote,
      "t", "o", "o", "l", "_", "n", "a", "m", "e", Quote, ":", Quote, "q",
      "u", "e", "r", "y", "_", "e", "m", "p", "l", "o", "y", "e", "e", "_",
      "i", "n", "f", "o", Quote, ",", Quote, "a", "r", "g", "u", "m", "e",
      "n", "t", "s", Quote, ":", "{", Quote, "n", "a", "m", "e", Quote,
      ":", Quote, "u5F20", "u4E09", Quote, "}", "}", ",", "{", Quote, "t",
      "o", "o", "l", "_", "n", "a", "m", "e", Quote, ":", Quote, "q", "u",
      "e", "r", "y", "_", "e", "m", "p", "l", "o", "y", "e", "e", "_", "i",
      "n", "f", "o", Quote, ",", Quote, "a", "r", "g", "u", "m", "e", "n",
      "t", "s", Quote, ":", "{", Quote, "n", "a", "m", "e", Quote, ":",
      Quote, "u5F20", "u4E09", Quote, "}", "}", "]", "}">>

BodyNullSteps ==
    <<"{", Quote, "s", "t", "e", "p", "s", Quote, ":", " ", "n", "u", "l",
      "l", "}">>

BodyOneSteps ==
    <<"{", Quote, "s", "t", "e", "p", "s", Quote, ":", " ", "1", "}">>

\* a closing brace inside a string
BodyBraceInString ==
    <<"{", Quote, "a", Quote, ":", " ", Quote, "}", Quote, "}">>

\* an object cut short
BodyCut == <<"{", Quote, "s", "t", "e", "p", "s", Quote, ":", " ", "[">>

BodyEmpty == <<"{", "}">>

ProseBefore == <<"o", "k", ":", " ">>

BraceBefore == <<"}", " ">>

ProseAfter == <<" ", "o", "k", ".">>

BraceAfter == <<" ", "}">>

ObjectAfter == <<"\n", "{", "}">>

SecondIntent ==
    <<"\n", "{", Quote, "i", "n", "t", "e", "n", "t", "_", "t", "y", "p",
      "e", Quote, ":", " ", Quote, "x", Quote, "}">>

ProseOnly == <<"n", "o", " ", "j", "s", "o", "n">>

\* The value stored under key in the dict value, or the default
Member(value, key, default) ==
    IF \E k \in 1..Len(value.members) : value.members[k][1] = key
    THEN value.members[CHOOSE k \in 1..Len(value.members) :
                           value.members[k][1] = key][2]
    ELSE default

\* bool(value) for a parsed JSON value
JTruthy(value) ==
    CASE value.t \in {"null", "false"} -> FALSE
      [] value.t = "true" -> TRUE
      [] value.t = "num" -> value.s # <<"0">>
      [] value.t = "str" -> value.s # <<>>
      [] OTHER -> value.members # <<>>

\* The name of a tool and the key of an argument, as the model writes them
ToolNameOf(value) ==
    IF value.t # "str" THEN "unregistered"
    ELSE IF value.s = K_rag_search THEN "rag_search"
    ELSE IF value.s = K_query_employee_info THEN "query_employee_info"
    ELSE IF value.s = <<>> THEN ""
    ELSE "unregistered"

ArgKeyOf(chars) ==
    IF chars = K_query THEN "query" ELSE IF chars = K_name THEN "name" ELSE "other"

\* step.get("arguments", {}) of a step object whose arguments, when it has
\* any, is an object of strings
ArgumentsOf(value) ==
    [k \in 1..Len(Member(value, K_arguments, JObj(<<>>)).members) |->
        <<ArgKeyOf(Member(value, K_arguments, JObj(<<>>)).members[k][1]),
          Member(value, K_arguments, JObj(<<>>)).members[k][2].s>>]

\* The step object at position i of the list items
StepOf(items, i) ==
    [step_id   |-> IF Member(items[i][2], K_step_id, JNum(<<"0">>)).t = "num"
                   THEN StrToInt(Member(items[i][2], K_step_id, JNum(<<"0">>)).s)
                   ELSE 0,
     tool_name |-> ToolNameOf(Member(items[i][2], K_tool_name, JStr(<<>>))),
     arguments |-> ArgumentsOf(items[i][2]),
     origin    |-> i]

\* The parsed object as the plan the validator reads: the kind of its "steps"
ToPlan(value) ==
    IF ~\E k \in 1..Len(value.members) : value.members[k][1] = K_steps
    THEN [kind |-> "missing", steps |-> <<>>]
    ELSE IF Member(value, K_steps, JLit("null")) \in {JArr(<<>>), JStr(<<>>)}
    THEN [kind |-> "list", steps |-> <<>>]
    ELSE IF ~JTruthy(Member(value, K_steps, JLit("null")))
    THEN [kind |-> "null", steps |-> <<>>]
    ELSE IF \/ Member(value, K_steps, JLit("null")).t # "arr"
            \/ \E i \in 1..Len(Member(value, K_steps, JLit("null")).members) :
                  Member(value, K_steps, JLit("null")).members[i][2].t # "obj"
    THEN [kind |-> "scalar", steps |-> <<>>]
    ELSE [kind |-> "list",
          steps |-> [i \in 1..Len(Member(value, K_steps, JLit("null")).members) |->
                        StepOf(Member(value, K_steps, JLit("null")).members, i)]]

\* The dict of lines 330-337
DefaultIntentJson ==
    JObj(<< <<K_intent_type, JStr(SimpleQuery)>>,
            <<K_requires_policy, JLit("true")>>,
            <<K_requires_data, JLit("false")>>,
            <<K_requires_generation, JLit("false")>>,
            <<K_entities, JObj(<<>>)>>,
            <<K_estimated_steps, JNum(<<"2">>)>> >>)

\* What self.llm.invoke(prompt) does: it raises, or returns a response whose
\* content is None, or one whose content is a text.
LlmRaises == [kind |-> "raise", text |-> <<>>]

LlmNoContent == [kind |-> "none", text |-> <<>>]

LlmSays(text) == [kind |-> "text", text |-> text]

\* The exception lines 311-321 (392-399) end with, "" for none
ExtractionError(resp) ==
    IF resp.kind = "raise" THEN "Exception"
    ELSE IF resp.kind = "none" THEN "AttributeError"
    ELSE IF ~(Find(resp.text, "{") >= 0
              /\ RFind(resp.text, "}") + 1 > Find(resp.text, "{"))
    THEN "ValueError"
    ELSE IF ~ParseJsonObject(resp.text).ok THEN "JSONDecodeError"
    ELSE ""

\* The same for the try of _generate_plan, which holds the validation too
PlanError(resp, intent) ==
    IF ExtractionError(resp) # "" THEN ExtractionError(resp)
    ELSE IF ValidateAndFixPlan(ToPlan(ParseJsonObject(resp.text).value), intent).raised
    THEN "AttributeError"
    ELSE ""

\* except ValueError
CaughtValueError(exc) == exc \in {"ValueError", "JSONDecodeError"}

\* except Exception
Caught(exc) == TRUE

\* _understand_intent(user_input) when the LLM does resp
UnderstandIntentOn(resp) ==
    IF ExtractionError(resp) = ""
    THEN [NoStageResult EXCEPT !.parsed = TRUE,
                               !.value = ParseJsonObject(resp.text).value]
    ELSE IF Caught(ExtractionError(resp))
    THEN [NoStageResult EXCEPT !.value = DefaultIntentJson]
    ELSE [NoStageResult EXCEPT !.raised = TRUE]

\* _generate_plan(intent, user_input) when the LLM does resp
GeneratePlanOn(resp, intent, user_input) ==
    IF PlanError(resp, intent) = ""
    THEN [NoStageResult EXCEPT
            !.parsed = TRUE,
            !.value = ParseJsonObject(resp.text).value,
            !.plan = ValidateAndFixPlan(ToPlan(ParseJsonObject(resp.text).value),
                                        intent).plan]
    ELSE IF Caught(PlanError(resp, intent))
    THEN [NoStageResult EXCEPT
            !.parsed = ExtractionError(resp) = "",
            !.value = IF ExtractionError(resp) = ""
                      THEN ParseJsonObject(resp.text).value ELSE JLit("null"),
            !.plan = FallbackPlan(user_input)]
    ELSE [NoStageResult EXCEPT !.raised = TRUE]

Bodies ==
    {BodyIntent, BodyPlan, BodyLookups, BodyNullSteps, BodyOneSteps,
     BodyBraceInString, BodyCut, BodyEmpty}

\* The responses of the LLM: a JSON text or a broken one, alone or with prose
\* before and after it, a text without an object, no text, and a failure.
ResponsePool ==
    {LlmRaises, LlmNoContent, LlmSays(ProseOnly)} \cup
    {LlmSays(before \o body \o after) :
        before \in {<<>>, ProseBefore, BraceBefore},
        body \in Bodies,
        after \in {<<>>, ProseAfter, BraceAfter, ObjectAfter, SecondIntent}}

InitParse ==
    /\ stage_in \in {"intent", "plan"}
    /\ resp_in \in ResponsePool
    /\ stage_intent \in IF stage_in = "plan"
                        THEN {DefaultIntent,
                              MkIntent("dict", <<<<"employee_name", ZhangSan>>>>),
                              MkIntent("null", <<>>)}
                        ELSE {DefaultIntent}
    /\ stage_out = NoStageResult
    /\ ppc = "input"
    /\ scenario = "parse"
    /\ clock = [year |-> 2024, month |-> 3]
    /\ ValidatorIdle
    /\ RetrieverIdle
    /\ FixIdle /\ ExtIdle /\ WoIdle /\ DepIdle /\ ThrIdle /\ RaceIdle /\ RerankIdle
    /\ RunsIdle({})

\* intent = self._understand_intent(question)
IntentStage ==
    /\ ppc = "input"
    /\ stage_in = "intent"
    /\ stage_out' = UnderstandIntentOn(resp_in)
    /\ ppc' = IF UnderstandIntentOn(resp_in).raised THEN "raised" ELSE "returned"
    /\ UNCHANGED <<stage_in, resp_in, stage_intent, valVars, retVars, unitVars,
                   scenario, clock, runVars, thrVars, raceVars, rerankVars>>

\* plan = self._generate_plan(intent, question)
PlanStage ==
    /\ ppc = "input"
    /\ stage_in = "plan"
    /\ stage_out' = GeneratePlanOn(resp_in, stage_intent, Question)
    /\ ppc' = IF GeneratePlanOn(resp_in, stage_intent, Question).raised
              THEN "raised" ELSE "returned"
    /\ UNCHANGED <<stage_in, resp_in, stage_intent, valVars, retVars, unitVars,
                   scenario, clock, runVars, thrVars, raceVars, rerankVars>>

NextParse == IntentStage \/ PlanStage

SpecParse == InitParse /\ [][NextParse]_vars

\* The call of the LLM failed, or no JSON object was parsed from its text.
NothingParsed == resp_in.kind # "text" \/ ~stage_out.parsed

\* C22: when the LLM call of _understand_intent or of _generate_plan fails,
\* or no JSON is parsed from its response, the call returns, without raising,
\* the default intent (simple_query, requires_policy true, requires_data and
\* requires_generation false, estimated_steps 2), respectively the plan of the
\* one step rag_search with the question as its query.
C22_FallbackValue ==
    (ppc # "input" /\ NothingParsed) =>
        /\ ppc = "returned"
        /\ ~stage_out.raised
        /\ stage_in = "intent" =>
              /\ Member(stage_out.value, K_intent_type, JLit("null")) = JStr(SimpleQuery)
              /\ Member(stage_out.value, K_requires_policy, JLit("null")) = JLit("true")
              /\ Member(stage_out.value, K_requires_data, JLit("null")) = JLit("false")
              /\ Member(stage_out.value, K_requires_generation, JLit("null"))
                     = JLit("false")
              /\ Member(stage_out.value, K_estimated_steps, JLit("null"))
                     = JNum(<<"2">>)
        /\ stage_in = "plan" =>
              /\ stage_out.plan.kind = "list"
              /\ Len(stage_out.plan.steps) = 1
              /\ stage_out.plan.steps[1].tool_name = "rag_search"
              /\ stage_out.plan.steps[1].arguments = <<<<"query", Question>>>>

\* The LLM call of _generate_plan raised, and the call returned the plan of
\* one search.
C22_Witness ==
    /\ ppc = "returned"
    /\ stage_in = "plan"
    /\ resp_in = LlmRaises
    /\ Len(stage_out.plan.steps) = 1
    /\ stage_out.plan.steps[1].tool_name = "rag_search"

\* The position of the brace that closes the brace opened before position i
\* at the given depth, or 0
RECURSIVE BalancedEnd(_, _, _)
BalancedEnd(text, i, depth) ==
    IF i > Len(text) THEN 0
    ELSE IF text[i] = "{" THEN BalancedEnd(text, i + 1, depth + 1)
    ELSE IF text[i] = "}"
    THEN IF depth = 1 THEN i ELSE BalancedEnd(text, i + 1, depth - 1)
    ELSE BalancedEnd(text, i + 1, depth)

\* The text has a first balanced {...} span
HasBalancedSpan(text) ==
    Find(text, "{") >= 0 /\ BalancedEnd(text, Find(text, "{") + 2, 1) > 0

FirstBalancedSpan(text) ==
    SubSeq(text, Find(text, "{") + 1, BalancedEnd(text, Find(text, "{") + 2, 1))

\* C25: when the first balanced {...} span of the response text is a JSON
\* object, the intent and the plan parser parse exactly that span: what
\* follows it in the text does not change the parsed value.
C25_FirstBalancedSpanParsed ==
    (/\ ppc = "returned"
     /\ resp_in.kind = "text"
     /\ HasBalancedSpan(resp_in.text)
     /\ JsonLoads(FirstBalancedSpan(resp_in.text)).ok) =>
        /\ stage_out.parsed
        /\ stage_out.value = JsonLoads(FirstBalancedSpan(resp_in.text)).value

----------------------------------------------------------------------------
(* Specification SpecThreshold: _adaptive_threshold and lines 224-226 of   *)
(* retrieve on drawn queries and reranked lists                            *)

\* The lengths of the queries: around the limits 10 and 50 of lines 96-99.
QueryLengths == {0, 9, 10, 11, 50, 51, 60}

\* The longest reranked list: more than the 10 of line 109.
MaxResults == 12

\* A reranked list of n sources of different texts, each with the score sc
ResultsOf(n, sc) == [i \in 1..n |-> Source(IntToStr(i), sc)]

InitThreshold ==
    /\ th_query \in {[i \in 1..n |-> "a"] : n \in QueryLengths}
    /\ th_results \in {ResultsOf(n, sc) : n \in 0..MaxResults,
                                         sc \in {NoScore, 5000, 5499, 6499, 6500,
                                                 7000, 8000}}
    /\ th_top_k \in {1, 3, 7}
    /\ th_adapted = 0
    /\ th_used = 0
    /\ tpc = "input"
    /\ scenario = "threshold"
    /\ clock = [year |-> 2024, month |-> 3]
    /\ ValidatorIdle
    /\ RetrieverIdle
    /\ FixIdle /\ ExtIdle /\ WoIdle /\ DepIdle /\ ParseIdle /\ RaceIdle /\ RerankIdle
    /\ RunsIdle({})

\* threshold = self._adaptive_threshold(query, reranked_results)
Adapt ==
    /\ tpc = "input"
    /\ th_adapted' = AdaptiveThreshold(th_query, th_results)
    /\ th_used' = AdaptiveThreshold(th_query, th_results)
    /\ tpc' = "adapted"
    /\ UNCHANGED <<th_query, th_results, th_top_k, valVars, retVars, unitVars,
                   scenario, clock, runVars, parseVars, raceVars, rerankVars>>

\* Lines 221-226: too few results pass, and the threshold is lowered
Relax ==
    /\ tpc = "adapted"
    /\ Len(FilterByThreshold(th_results, th_used)) < th_top_k
    /\ Len(th_results) > 0
    /\ th_used' = RelaxedThreshold(th_used)
    /\ tpc' = "relaxed"
    /\ UNCHANGED <<th_query, th_results, th_top_k, th_adapted, valVars, retVars,
                   unitVars, scenario, clock, runVars, parseVars, raceVars, rerankVars>>

\* Lines 221-224: the threshold stays
KeepThreshold ==
    /\ tpc = "adapted"
    /\ ~(Len(FilterByThreshold(th_results, th_used)) < th_top_k /\ Len(th_results) > 0)
    /\ tpc' = "kept"
    /\ UNCHANGED <<th_query, th_results, th_top_k, th_adapted, th_used, valVars,
                   retVars, unitVars, scenario, clock, runVars, parseVars, raceVars, rerankVars>>

NextThreshold == Adapt \/ Relax \/ KeepThreshold

SpecThreshold == InitThreshold /\ [][NextThreshold]_vars

\* 0.75, 0.70 or 0.65 by the length of the query, less 0.05 for fewer than 3
\* results and plus 0.05 for more than 10, in units of 0.0001
DecimalThreshold(query, results) ==
    (IF Len(query) < 10 THEN 7500 ELSE IF Len(query) > 50 THEN 6500 ELSE 7000)
    + (IF Len(results) < 3 THEN -500 ELSE IF Len(results) > 10 THEN 500 ELSE 0)

\* a is b up to the rounding of one floating-point operation
Rounds(a, b) == a - b \in {-1, 0, 1}

\* C23: _adaptive_threshold returns a value from 0.6 to 0.8, which is 0.75,
\* 0.70 or 0.65 by the length of the query, minus 0.05 for fewer than 3
\* results or plus 0.05 for more than 10; the threshold retrieve uses after it
\* has lowered it is the adaptive threshold minus 0.1, and not below 0.5.
C23_ThresholdRange ==
    /\ tpc # "input" /\ tpc # "off" =>
          /\ th_adapted >= 6000 /\ th_adapted <= 8000
          /\ Rounds(th_adapted, DecimalThreshold(th_query, th_results))
    /\ tpc = "relaxed" =>
          /\ th_used >= 5000
          /\ Rounds(th_used, DecimalThreshold(th_query, th_results) - 1000)
          /\ Rounds(th_used, th_adapted - 1000)

\* A long query with more than 10 results of score 0.65: the threshold is
\* 0.65 + 0.05, no result passes it, and retrieve goes on with 0.6.
C23_Witness ==
    /\ tpc = "relaxed"
    /\ Len(th_query) > 50
    /\ Len(th_results) > 10
    /\ th_adapted = 7001
    /\ th_used = 6001

----------------------------------------------------------------------------
(* Specification SpecRace: two create_work_order_tool calls at once, each   *)
(* on its own connection (lines 377-500 of mcp/mcp_tools.py)               *)
(*                                                                         *)
(* Both calls name the same title and the same assignee, written as the    *)
(* number or as the name, with action "auto" and no duplicate_reason.      *)
(* wo_pc of a call is "start", "selected" after the SELECT of line 408,    *)
(* "inserted" between the INSERT of line 492 and the commit of line 498,   *)
(* and then "created"; "blocked" after the return of line 467, "failed"    *)
(* after the return of line 524.  The INSERT takes the write lock of the   *)
(* database file, which the commit releases; the rows of a transaction     *)
(* are in the table for the other connection once it is committed.         *)

\* The arguments the two calls are made with.
RaceArgs ==
    { [title |-> Question, assignee_id |-> a, action |-> act, duplicate_reason |-> d] :
        a \in {<<"e", "0", "0", "1">>, ZhangSan},
        act \in {Auto, <<"A", "U", "T", "O">>, None},
        d \in {None, <<>>} }

InitRace ==
    /\ work_orders \in {<<>>, <<OldRow(Question, "open")>>,
                        <<OldRow(Question, "in_progress")>>,
                        <<OldRow(Question, "closed")>>, <<OldRow(OkText, "open")>>}
    /\ wo_first = work_orders
    /\ wo_args \in [Callers -> RaceArgs]
    /\ wo_pc = [c \in Callers |-> "start"]
    /\ wo_existing = [c \in Callers |-> <<>>]
    /\ wo_call = NoWorkOrderCall
    /\ scenario = "race"
    /\ clock = [year |-> 2024, month |-> 3]
    /\ ValidatorIdle
    /\ RetrieverIdle
    /\ RunsIdle({})
    /\ FixIdle /\ ExtIdle /\ DepIdle /\ ParseIdle /\ ThrIdle /\ RerankIdle

\* The other call holds the write lock: its INSERT is not committed yet.
LockHeld(c) == \E o \in Callers \ {c} : wo_pc[o] = "inserted"

\* The call returns at line 461 or 467 without inserting
ReturnsBlocked(c) ==
    /\ wo_existing[c] # <<>>
    /\ Blocked(ActionOf(wo_args[c].action), wo_args[c].duplicate_reason)

RaceUnchanged ==
    UNCHANGED <<wo_args, wo_first, wo_call, valVars, retVars, scenario, clock, runVars,
                fixVars, extVars, depVars, parseVars, thrVars, rerankVars>>

\* Lines 377-408: the connection, the assignee, and existing = cursor.fetchone()
\* over the rows committed so far
RaceSelect(c) ==
    /\ wo_pc[c] = "start"
    /\ \E e \in ExistingChoices(work_orders, wo_args[c].title, wo_args[c].assignee_id) :
          wo_existing' = [wo_existing EXCEPT
                             ![c] = IF e = 0 THEN <<>> ELSE <<work_orders[e]>>]
    /\ wo_pc' = [wo_pc EXCEPT ![c] = "selected"]
    /\ UNCHANGED work_orders
    /\ RaceUnchanged

\* Lines 416-472 for action "auto" without duplicate_reason and a row found
RaceBlocked(c) ==
    /\ wo_pc[c] = "selected"
    /\ ReturnsBlocked(c)
    /\ wo_pc' = [wo_pc EXCEPT ![c] = "blocked"]
    /\ UNCHANGED <<work_orders, wo_existing>>
    /\ RaceUnchanged

\* Lines 474-496: cursor.execute('INSERT INTO work_orders ...')
RaceInsert(c) ==
    /\ wo_pc[c] = "selected"
    /\ ~ReturnsBlocked(c)
    /\ ~LockHeld(c)
    /\ wo_pc' = [wo_pc EXCEPT ![c] = "inserted"]
    /\ UNCHANGED <<work_orders, wo_existing>>
    /\ RaceUnchanged

\* The same execute giving up on the lock (sqlite3.OperationalError, "database
\* is locked"), and the return of line 524
RaceLocked(c) ==
    /\ wo_pc[c] = "selected"
    /\ ~ReturnsBlocked(c)
    /\ LockHeld(c)
    /\ wo_pc' = [wo_pc EXCEPT ![c] = "failed"]
    /\ UNCHANGED <<work_orders, wo_existing>>
    /\ RaceUnchanged

\* Line 498, conn.commit(), and the return of line 513
RaceCommit(c) ==
    /\ wo_pc[c] = "inserted"
    /\ work_orders' = Append(work_orders,
                             NewRow(wo_args[c].title, None,
                                    FindAssignee(wo_args[c].assignee_id),
                                    wo_args[c].duplicate_reason, 1))
    /\ wo_pc' = [wo_pc EXCEPT ![c] = "created"]
    /\ UNCHANGED wo_existing
    /\ RaceUnchanged

NextRace ==
    \/ \E c \in Callers : RaceSelect(c)
    \/ \E c \in Callers : RaceBlocked(c)
    \/ \E c \in Callers : RaceInsert(c)
    \/ \E c \in Callers : RaceLocked(c)
    \/ \E c \in Callers : RaceCommit(c)

SpecRace == InitRace /\ [][NextRace]_vars

\* The table had no open or in-progress order of the title and the assignee
\* when the two calls were made.
NoOpenOrderFirst == MatchingOpen(wo_first, E001, Question) = {}

\* C29: of two calls made at once with the same title and assignee, action
\* "auto" and no duplicate_reason, on a table without a matching open order,
\* at most one inserts a row.
C29_NotBothInsert ==
    NoOpenOrderFirst => ~(\A c \in Callers : wo_pc[c] = "created")

\* When the second call selects after the first has committed, it is the
\* first call alone that inserts.
C29_OneAfterTheOther ==
    [][\A c \in Callers :
          (wo_pc[c] = "start" /\ wo_pc'[c] = "selected"
              /\ \E o \in Callers \ {c} : wo_pc[o] = "created")
          => wo_existing'[c] # <<>>]_vars

============================================================================
